---------------------------- MODULE Spec2Model ----------------------------
(***************************************************************************)
(* A model of the css-color parser (src/src/lib.rs).                       *)
(*                                                                         *)
(* The program is one pure function, parse_css_color, reached through      *)
(* FromStr::from_str.  The state is the input byte string handed to it     *)
(* and the Result it returns.  Bytes are their ASCII codes, a cursor       *)
(* (&[u8]) is the sequence of the bytes not yet consumed, and an f32 is    *)
(* the pair <<m, e>> standing for m * 2^e, rounded to a 24-bit significand *)
(* to nearest, ties to even, after every arithmetic operation.             *)
(*                                                                         *)
(* A Rust function whose body binds intermediate results is written as a   *)
(* chain of operators, one per binding, each taking the earlier results as *)
(* parameters.                                                             *)
(***************************************************************************)
EXTENDS Integers, Sequences, FiniteSets, TLC

VARIABLES
    tokens,   \* the lexical pieces the input was written from (ghost)
    input,    \* the bytes handed to from_str
    result    \* Pending before the call, then the Result of from_str

vars == <<tokens, input, result>>

(***************************************************************************)
(* Bytes.  Printable is ASCII 32..126 in order (DQ, BS and BQ stand for the *)
(* double quote, the backslash and the backquote); Control names the       *)
(* control and non-ASCII bytes.                                            *)
(***************************************************************************)
Printable ==
    << " ", "!", "DQ", "#", "$", "%", "&", "'", "(", ")", "*", "+", ",", "-",
       ".", "/", "0", "1", "2", "3", "4", "5", "6", "7", "8", "9", ":", ";",
       "<", "=", ">", "?", "@", "A", "B", "C", "D", "E", "F", "G", "H", "I",
       "J", "K", "L", "M", "N", "O", "P", "Q", "R", "S", "T", "U", "V", "W",
       "X", "Y", "Z", "[", "BS", "]", "^", "_", "BQ", "a", "b", "c", "d", "e",
       "f", "g", "h", "i", "j", "k", "l", "m", "n", "o", "p", "q", "r", "s",
       "t", "u", "v", "w", "x", "y", "z", "{", "|", "}", "~" >>

Control ==
    [NUL |-> 0, TAB |-> 9, LF |-> 10, VT |-> 11, FF |-> 12, CR |-> 13, DEL |-> 127,
     x80 |-> 128, xFF |-> 255]

\* The byte of a one-character literal, or of a named byte.
b(c) ==
    IF c \in {"NUL", "TAB", "LF", "VT", "FF", "CR", "DEL", "x80", "xFF"}
    THEN Control[c]
    ELSE 31 + CHOOSE i \in 1..95 : Printable[i] = c

\* The bytes of a string written as a sequence of characters.
Bytes(s) == [i \in 1..Len(s) |-> b(s[i])]

\* &input[n..]
From(input_, n) == SubSeq(input_, n + 1, Len(input_))

\* input.get(0) == Some(c), for the byte code c
FirstIs(input_, c) == Len(input_) > 0 /\ input_[1] = c

RECURSIVE Concat(_)
Concat(ts) == IF ts = <<>> THEN <<>> ELSE Head(ts) \o Concat(Tail(ts))

(***************************************************************************)
(* f32.  A finite value is <<m, e>> = m * 2^e with m odd, or <<0, 0>>; the *)
(* sign of zero is dropped, since no operation of the parser tells -0.0    *)
(* from 0.0 (== and clamp compare by value).  The least exponent is -149   *)
(* (the last place of a subnormal), a magnitude of 2^128 or more is        *)
(* infinite, and NaN is a value of its own.                                *)
(***************************************************************************)
Two23 == 2^23
Two24 == 2^24

Abs(x) == IF x < 0 THEN -x ELSE x
Sgn(x) == IF x < 0 THEN -1 ELSE IF x > 0 THEN 1 ELSE 0

RECURSIVE Canon(_, _)
Canon(m, e) ==
    IF m = 0 THEN <<0, 0>>
    ELSE IF m % 2 = 0 THEN Canon(m \div 2, e + 1)
    ELSE <<m, e>>

F32Zero == <<0, 0>>
F32One == <<1, 0>>
F32Two == <<1, 1>>
F32Three == <<3, 0>>
F32Four == <<1, 2>>
F32Six == <<3, 1>>
F32Half == <<1, -1>>

\* f32::INFINITY, written as a magnitude beyond every finite one, and NaN.
F32Inf == <<1, 1000>>
F32NaN == <<0, 1000>>

IsNaN(x) == x = F32NaN
IsInf(x) == Abs(x[1]) = 1 /\ x[2] = 1000

RECURSIVE BitLen(_)
BitLen(n) == IF n = 0 THEN 0 ELSE 1 + BitLen(n \div 2)

\* A magnitude of 2^128 or more overflows to infinity.
Saturate(x) == IF BitLen(x[1]) + x[2] > 128 THEN F32Inf ELSE x

\* How a fraction num / den in [0,1) stands to one half: -2 when it is
\* zero, else the sign of num / den - 1/2.
HalfCmp(num, den) == IF num = 0 THEN -2 ELSE Sgn(2 * num - den)

\* Round the non-negative magnitude (m + frac) * 2^e to 24 bits, where
\* 2^23 <= m < 2^24 and frac in [0,1) is known by cmp (see HalfCmp): to
\* nearest, ties to even.
RoundUp(m, cmp) == cmp > 0 \/ (cmp = 0 /\ m % 2 = 1)

\* Whether q, the bits of m above the last d, rounds up, r being the d
\* bits dropped and half == 2^(d - 1).
SubUp(q, r, half, cmp) == r > half \/ (r = half /\ (cmp > -2 \/ q % 2 = 1))

\* The magnitude (m + frac) * 2^(-149 - d), m < 2^24 and d > 0, rounded to
\* the last place of a subnormal, 2^-149.
RoundSub(m, cmp, d) ==
    IF d > 24 THEN F32Zero
    ELSE Canon(m \div (2^d)
                 + (IF SubUp(m \div (2^d), m % (2^d), 2^(d - 1), cmp)
                    THEN 1 ELSE 0),
               -149)

Round24(m, cmp, e) ==
    IF e < -149 THEN RoundSub(m, cmp, -149 - e)
    ELSE Saturate(Canon(IF RoundUp(m, cmp) THEN m + 1 ELSE m, e))

\* The magnitude m * 2^e, m < 2^24, which needs no rounding unless it is
\* subnormal.
Exact(m, e) ==
    IF e < -149 THEN RoundSub(m, -2, -149 - e) ELSE Saturate(Canon(m, e))

\* How many quotient bits Grow appends at once to an m of len bits: up to
\* seven (d is below 2^24, so r * 2^7 stays in 32 bits), and no more than
\* m lacks.
GrowStep(len) == IF len <= 17 THEN 7 ELSE 24 - len

\* The quotient bits of r/d appended to m, c at a time, until m has 24
\* bits; then rounded.
RECURSIVE Grow(_, _, _, _, _)
Grow(m, r, d, e, c) ==
    IF m >= Two23 THEN Round24(m, HalfCmp(r, d), e)
    ELSE IF m = 0 /\ r = 0 THEN F32Zero
    ELSE Grow(m * (2^c) + (r * (2^c)) \div d, (r * (2^c)) % d, d, e - c,
              GrowStep(BitLen(m * (2^c) + (r * (2^c)) \div d)))

\* A quotient q of k + 24 bits (plus a remainder, sticky) rounded.
Shrink(q, sticky, e, k) ==
    Round24(q \div (2^k),
            IF q % (2^k) > 2^(k - 1) THEN 1
            ELSE IF q % (2^k) < 2^(k - 1)
            THEN (IF q % (2^k) = 0 /\ ~sticky THEN -2 ELSE -1)
            ELSE IF sticky THEN 1 ELSE 0,
            e + k)

\* The f32 nearest to (n / d) * 2^e, for naturals n and d > 0.
RoundRatio(n, d, e) ==
    IF n \div d >= Two24
    THEN Shrink(n \div d, n % d # 0, e, BitLen(n \div d) - 24)
    ELSE Grow(n \div d, n % d, d, e, GrowStep(BitLen(n \div d)))

Neg(x) == <<-x[1], x[2]>>

WithSign(negative, x) == IF negative THEN Neg(x) ELSE x

\* n as f32, for an integer below 2^24 in magnitude (exact).
F32OfInt(n) == Canon(n, 0)

\* x / y; y is never zero where the parser divides.
F32Div(x, y) ==
    IF IsNaN(x) \/ IsNaN(y) \/ (IsInf(x) /\ IsInf(y)) THEN F32NaN
    ELSE WithSign((x[1] < 0) # (y[1] < 0),
                  RoundRatio(Abs(x[1]), Abs(y[1]), x[2] - y[2]))

\* x < y for two values of one sign, neither zero, whose top bits stand at
\* bx and by.  With equal top bits the mantissas fit in 24 bits after
\* aligning to the smaller exponent lo.
LtSameSign(x, y, bx, by, lo) ==
    IF bx # by THEN (IF x[1] > 0 THEN bx < by ELSE bx > by)
    ELSE x[1] * (2^(x[2] - lo)) < y[1] * (2^(y[2] - lo))

\* x < y
F32Lt(x, y) ==
    IF IsNaN(x) \/ IsNaN(y) THEN FALSE
    ELSE IF Sgn(x[1]) # Sgn(y[1]) THEN Sgn(x[1]) < Sgn(y[1])
    ELSE IF x[1] = 0 THEN FALSE
    ELSE LtSameSign(x, y, BitLen(Abs(x[1])) + x[2], BitLen(Abs(y[1])) + y[2],
                    IF x[2] < y[2] THEN x[2] ELSE y[2])

\* x <= y
F32Le(x, y) == ~IsNaN(x) /\ ~IsNaN(y) /\ ~F32Lt(y, x)

\* The magnitude (hi * 2^24 + lo) * 2^e, with lo < 2^24 and 0 < hi < 2^26
\* of k bits, rounded to 24 bits.
RoundHigh(hi, lo, e, k) ==
    IF k <= 24
    THEN Round24(hi * (2^(24 - k)) + lo \div (2^k),
                 IF lo % (2^k) = 0 THEN -2
                 ELSE Sgn((lo % (2^k)) - 2^(k - 1)), e + k)
    ELSE Round24(hi \div (2^(k - 24)),
                 IF hi % (2^(k - 24)) = 0 /\ lo = 0 THEN -2
                 ELSE Sgn((hi % (2^(k - 24))) * Two24 + lo - 2^(k - 1)),
                 e + k)

\* The magnitude (w[1] * 2^24 + w[2]) * 2^e rounded to 24 bits.
RoundWide(w, e) ==
    IF w[1] = 0 THEN Exact(w[2], e) ELSE RoundHigh(w[1], w[2], e, BitLen(w[1]))

\* (a1 * 2^12 + a0) * (b1 * 2^12 + b0) as the limbs <<hi, lo>>: by 12-bit
\* limbs no partial product leaves 32 bits.
WideMul(a1, a0, b1, b0) ==
    << a1 * b1 + (a1 * b0 + a0 * b1) \div 4096
         + (a0 * b0 + ((a1 * b0 + a0 * b1) % 4096) * 4096) \div Two24,
       (a0 * b0 + ((a1 * b0 + a0 * b1) % 4096) * 4096) % Two24 >>

MulAbs(mx, my, e) ==
    RoundWide(WideMul(mx \div 4096, mx % 4096, my \div 4096, my % 4096), e)

\* x * y
F32Mul(x, y) ==
    IF IsNaN(x) \/ IsNaN(y) THEN F32NaN
    ELSE IF (IsInf(x) /\ y[1] = 0) \/ (x[1] = 0 /\ IsInf(y)) THEN F32NaN
    ELSE WithSign((x[1] < 0) # (y[1] < 0),
                  MulAbs(Abs(x[1]), Abs(y[1]), x[2] + y[2]))

\* m * 2^d as the limbs <<hi, lo>>, for m < 2^24 and BitLen(m) + d <= 49.
Shifted(m, d) ==
    IF d >= 24 THEN <<m * (2^(d - 24)), 0>>
    ELSE <<m \div (2^(24 - d)), (m % (2^(24 - d))) * (2^d)>>

WideLt(p, q) == p[1] < q[1] \/ (p[1] = q[1] /\ p[2] < q[2])

WideAdd(p, q) ==
    <<p[1] + q[1] + (p[2] + q[2]) \div Two24, (p[2] + q[2]) % Two24>>

\* p - q for p >= q
WideSub(p, q) ==
    IF p[2] >= q[2] THEN <<p[1] - q[1], p[2] - q[2]>>
    ELSE <<p[1] - q[1] - 1, p[2] + Two24 - q[2]>>

\* The sum of two non-zero values whose magnitudes are wx and wy in units
\* of 2^e: the sign is that of the larger magnitude.
AddAligned(xneg, yneg, wx, wy, e) ==
    IF xneg = yneg THEN WithSign(xneg, RoundWide(WideAdd(wx, wy), e))
    ELSE WithSign(IF WideLt(wx, wy) THEN yneg ELSE xneg,
                  RoundWide(IF WideLt(wx, wy) THEN WideSub(wy, wx)
                            ELSE WideSub(wx, wy), e))

\* x + y with e the smaller exponent.  When one operand lies wholly below a
\* quarter of the last place of the other, the sum rounds to the other.
AddAt(x, y, e) ==
    IF IsNaN(x) \/ IsNaN(y) \/ (IsInf(x) /\ IsInf(y) /\ x # y) THEN F32NaN
    ELSE IF x[1] = 0 THEN y
    ELSE IF y[1] = 0 THEN x
    ELSE IF BitLen(Abs(x[1])) + x[2] - e > 49 THEN x
    ELSE IF BitLen(Abs(y[1])) + y[2] - e > 49 THEN y
    ELSE AddAligned(x[1] < 0, y[1] < 0, Shifted(Abs(x[1]), x[2] - e),
                    Shifted(Abs(y[1]), y[2] - e), e)

F32Add(x, y) == AddAt(x, y, IF x[2] < y[2] THEN x[2] ELSE y[2])

F32Sub(x, y) == F32Add(x, Neg(y))

\* value.floor()
F32Floor(x) ==
    IF x[2] >= 0 THEN x
    ELSE IF -x[2] >= 24 THEN (IF x[1] < 0 THEN F32OfInt(-1) ELSE F32Zero)
    ELSE IF x[1] > 0 THEN F32OfInt(x[1] \div (2^(-x[2])))
    ELSE F32OfInt(-((-x[1]) \div (2^(-x[2])) + 1))

\* value.max(0.): no upper end.
clamp_unit_f32_below(value) == IF F32Lt(value, F32Zero) THEN F32Zero ELSE value

\* value.clamp(0., 1.)
clamp_unit_f32(value) ==
    IF F32Lt(value, F32Zero) THEN F32Zero
    ELSE IF F32Lt(F32One, value) THEN F32One
    ELSE value

(***************************************************************************)
(* Srgb and the Result of a parse step.                                    *)
(***************************************************************************)
Srgb(red, green, blue, alpha) ==
    [red |-> red, green |-> green, blue |-> blue, alpha |-> alpha]

F32255 == <<255, 0>>

from_rgba8(red, green, blue, alpha) ==
    Srgb(F32Div(F32OfInt(red), F32255),
         F32Div(F32OfInt(green), F32255),
         F32Div(F32OfInt(blue), F32255),
         F32Div(F32OfInt(alpha), F32255))

from_rgb8(red, green, blue) == from_rgba8(red, green, blue, 255)

\* Ok((rest, value)), and Err(())
Ok(rest, value) == [ok |-> TRUE, rest |-> rest, value |-> value]
Err == [ok |-> FALSE]

\* Ok(rest): a cursor and no value
OkRest(rest) == [ok |-> TRUE, rest |-> rest]

\* Result<Srgb, ()>
OkColor(color) == [ok |-> TRUE, color |-> color]

NONE == F32Zero

(***************************************************************************)
(* Colour space converters.                                                *)
(***************************************************************************)
\* The hue as written, not brought into one turn.
normalize_hue_as_written(value) == value

\* value - value.floor()
normalize_hue(value) == F32Sub(value, F32Floor(value))

\* if h6 + 2. < 6. { h6 + 2. } else { h6 - 4. }, given up == h6 + 2.
h6_red_of(h6, up) == IF F32Lt(up, F32Six) THEN up ELSE F32Sub(h6, F32Four)

h6_red(h6) == h6_red_of(h6, F32Add(h6, F32Two))

\* if h6 - 2. >= 0. { h6 - 2. } else { h6 + 4. }, given down == h6 - 2.
h6_blue_of(h6, down) ==
    IF F32Le(F32Zero, down) THEN down ELSE F32Add(h6, F32Four)

h6_blue(h6) == h6_blue_of(h6, F32Sub(h6, F32Two))

\* hue_to_rgb with t2 in its falling sector.
hsl_hue_to_rgb_held(t1, t2, h6) ==
    IF F32Lt(h6, F32One) THEN F32Add(F32Mul(F32Sub(t2, t1), h6), t1)
    ELSE IF F32Lt(h6, F32Four) THEN t2
    ELSE t1

\* The closure hue_to_rgb of From<Hsla> for Srgb.
hsl_hue_to_rgb(t1, t2, h6) ==
    IF F32Lt(h6, F32One) THEN F32Add(F32Mul(F32Sub(t2, t1), h6), t1)
    ELSE IF F32Lt(h6, F32Three) THEN t2
    ELSE IF F32Lt(h6, F32Four)
    THEN F32Add(F32Mul(F32Sub(t2, t1), F32Sub(F32Four, h6)), t1)
    ELSE t1

\* lightness + saturation in both halves.
hsl_t2_sum(saturation, lightness) == F32Add(lightness, saturation)

\* let t2 = ...
hsl_t2(saturation, lightness) ==
    IF F32Le(lightness, F32Half)
    THEN F32Mul(lightness, F32Add(saturation, F32One))
    ELSE F32Sub(F32Add(lightness, saturation), F32Mul(lightness, saturation))

\* The Srgb { .. } of From<Hsla>, from t1, t2 and h6.
hsl_channels(t1, t2, h6, alpha) ==
    Srgb(hsl_hue_to_rgb(t1, t2, h6_red(h6)),
         hsl_hue_to_rgb(t1, t2, h6),
         hsl_hue_to_rgb(t1, t2, h6_blue(h6)),
         alpha)

\* let t1 = hsla.lightness * 2. - t2; let h6 = hsla.hue * 6.;
hsl_from_t2(hue, lightness, t2, alpha) ==
    hsl_channels(F32Sub(F32Mul(lightness, F32Two), t2), t2,
                 F32Mul(hue, F32Six), alpha)

\* impl From<Hsla> for Srgb
SrgbFromHsla(hue, saturation, lightness, alpha) ==
    hsl_from_t2(hue, lightness, hsl_t2(saturation, lightness), alpha)

\* hue_to_rgb without its falling sector.
hwb_hue_to_rgb_flat(h6) ==
    IF F32Lt(h6, F32One) THEN h6
    ELSE IF F32Lt(h6, F32Three) THEN F32One
    ELSE F32Zero

\* The fn hue_to_rgb of From<Hwba> for Srgb.
hwb_hue_to_rgb(h6) ==
    IF F32Lt(h6, F32One) THEN h6
    ELSE IF F32Lt(h6, F32Three) THEN F32One
    ELSE IF F32Lt(h6, F32Four) THEN F32Sub(F32Four, h6)
    ELSE F32Zero

\* The gray Srgb { .. } of From<Hwba>.
hwb_gray(gray, alpha) == Srgb(gray, gray, gray, alpha)

\* The coloured Srgb { .. } of From<Hwba>, from h6 and x.
hwb_channels(h6, x, whiteness, alpha) ==
    Srgb(F32Add(F32Mul(hwb_hue_to_rgb(h6_red(h6)), x), whiteness),
         F32Add(F32Mul(hwb_hue_to_rgb(h6), x), whiteness),
         F32Add(F32Mul(hwb_hue_to_rgb(h6_blue(h6)), x), whiteness),
         alpha)

\* The two arms of From<Hwba>, given sum == whiteness + blackness.
hwb_from_sum(hue, whiteness, blackness, alpha, sum) ==
    IF F32Le(F32One, sum) THEN hwb_gray(F32Div(whiteness, sum), alpha)
    ELSE hwb_channels(F32Mul(hue, F32Six),
                      F32Sub(F32Sub(F32One, whiteness), blackness),
                      whiteness, alpha)

\* impl From<Hwba> for Srgb
SrgbFromHwba(hue, whiteness, blackness, alpha) ==
    hwb_from_sum(hue, whiteness, blackness, alpha,
                 F32Add(whiteness, blackness))

(***************************************************************************)
(* Byte classifier.  Bytes are written by their codes: 48..57 are b'0' to  *)
(* b'9', 65..90 b'A' to b'Z', 97..122 b'a' to b'z', 95 is b'_', 45 b'-'.   *)
(***************************************************************************)
InRange(c, lo, hi) == lo <= c /\ c <= hi

is_ascii(c) == c <= 127

is_name_start(c) ==
    IF InRange(c, 97, 122) \/ InRange(c, 65, 90) \/ c = 95 THEN TRUE
    ELSE ~is_ascii(c)

is_ident_start(input_) ==
    IF FirstIs(input_, 45)
    THEN IF Len(input_) >= 2
         THEN IF input_[2] = 45 THEN TRUE ELSE is_name_start(input_[2])
         ELSE FALSE
    ELSE IF Len(input_) >= 1 THEN is_name_start(input_[1])
    ELSE FALSE

is_name(c) ==
    IF InRange(c, 97, 122) \/ InRange(c, 65, 90) \/ InRange(c, 48, 57)
       \/ c = 95 \/ c = 45
    THEN TRUE
    ELSE ~is_ascii(c)

\* Every byte up to the space is white space.
is_whitespace_to_space(c) == c <= 32

\* b' ', b'\n', b'\t', b'\r', b'\x0C'
is_whitespace(c) ==
    c <= 32 /\ (c = 32 \/ c = 10 \/ c = 9 \/ c = 13 \/ c = 12)

\* Result<u8, ()>: the digit's value, or -1 for Err(()).
digit(c) == IF InRange(c, 48, 57) THEN c - 48 ELSE -1

\* hex_digit with the upper-case range one letter too long (to b'G', 71).
hex_digit_to_G(c) ==
    IF InRange(c, 48, 57) THEN c - 48
    ELSE IF InRange(c, 65, 71) THEN c - 65 + 10
    ELSE IF InRange(c, 97, 102) THEN c - 97 + 10
    ELSE -1

\* b'A'..=b'F' is 65..70 and b'a'..=b'f' is 97..102
hex_digit(c) ==
    IF InRange(c, 48, 57) THEN c - 48
    ELSE IF InRange(c, 65, 70) THEN c - 65 + 10
    ELSE IF InRange(c, 97, 102) THEN c - 97 + 10
    ELSE -1

\* The byte as it is, in either case.
to_ascii_lowercase_kept(c) == c

to_ascii_lowercase(c) == IF InRange(c, 65, 90) THEN c + 32 ELSE c

eq_ignore_ascii_case(x, y) ==
    /\ Len(x) = Len(y)
    /\ \A i \in 1..Len(x) : to_ascii_lowercase(x[i]) = to_ascii_lowercase(y[i])

(***************************************************************************)
(* Scanner primitives.                                                     *)
(***************************************************************************)
RECURSIVE skip_ws(_)
skip_ws(input_) ==
    IF Len(input_) > 0 /\ is_whitespace(input_[1]) THEN skip_ws(From(input_, 1))
    ELSE input_

consume_byte(input_, c) ==
    IF Len(input_) > 0 /\ input_[1] = c THEN OkRest(From(input_, 1)) ELSE Err

\* A keyword or function name, by its characters.
Name(chars) == Bytes(chars)

\* 40 is b'('
consume_function(input_, name) ==
    IF /\ Len(input_) >= Len(name) + 1
       /\ eq_ignore_ascii_case(SubSeq(input_, 1, Len(name)), name)
       /\ input_[Len(name) + 1] = 40
    THEN OkRest(skip_ws(From(input_, Len(name) + 1)))
    ELSE Err

consume_name(input_, name) ==
    IF /\ Len(input_) >= Len(name)
       /\ eq_ignore_ascii_case(SubSeq(input_, 1, Len(name)), name)
       /\ ~(Len(input_) > Len(name) /\ is_name(input_[Len(name) + 1]))
    THEN OkRest(From(input_, Len(name)))
    ELSE Err

consume_none(input_) == consume_name(input_, Name(<<"n", "o", "n", "e">>))

\* skip_ws(consume_none(input)?), with the value NONE
none_value(n) == IF n.ok THEN Ok(skip_ws(n.rest), NONE) ELSE Err

(***************************************************************************)
(* Numeral tokenizer.  43 is b'+', 45 b'-', 46 b'.', 69 b'E', 101 b'e'.    *)
(***************************************************************************)
\* Every leading sign is skipped.
RECURSIVE skip_sign_all(_)
skip_sign_all(input_) ==
    IF FirstIs(input_, 43) \/ FirstIs(input_, 45) THEN skip_sign_all(From(input_, 1))
    ELSE input_

skip_sign(input_) ==
    IF FirstIs(input_, 43) \/ FirstIs(input_, 45) THEN From(input_, 1)
    ELSE input_

RECURSIVE SkipDigits(_)
SkipDigits(input_) ==
    IF Len(input_) > 0 /\ digit(input_[1]) >= 0
    THEN CHOOSE r \in {SkipDigits(v) : v \in {From(input_, 1)}} : TRUE
    ELSE input_

\* Digits, or none at all.
consume_digits_or_none(input_) == OkRest(SkipDigits(input_))

consume_digits(input_) ==
    IF Len(input_) > 0 /\ digit(input_[1]) >= 0
    THEN OkRest(SkipDigits(input_))
    ELSE Err

\* match input.get(0) { Some(b'.') => {} _ => input = consume_digits(input)? }
number_integer(input_) ==
    IF FirstIs(input_, 46) THEN OkRest(input_) ELSE consume_digits(input_)

\* if let Some(b'.') = input.get(0) { input = consume_digits(&input[1..])? }
number_fraction(r) ==
    IF ~r.ok THEN Err
    ELSE IF FirstIs(r.rest, 46) THEN consume_digits(From(r.rest, 1))
    ELSE r

\* number_exponent that leaves an e without digits where it is.
number_exponent_or_back(r) ==
    IF ~r.ok THEN Err
    ELSE IF (FirstIs(r.rest, 69) \/ FirstIs(r.rest, 101))
            /\ consume_digits(skip_sign(From(r.rest, 1))).ok
    THEN consume_digits(skip_sign(From(r.rest, 1)))
    ELSE r

\* Some(b'E') | Some(b'e') => consume_digits(skip_sign(&input[1..]))?
number_exponent(r) ==
    IF ~r.ok THEN Err
    ELSE IF FirstIs(r.rest, 69) \/ FirstIs(r.rest, 101)
    THEN consume_digits(skip_sign(From(r.rest, 1)))
    ELSE r

consume_number(input_) ==
    number_exponent(number_fraction(number_integer(skip_sign(input_))))

(***************************************************************************)
(* Numeric evaluator.  37 is b'%'.                                         *)
(***************************************************************************)
\* A natural number of any size: its base-4096 limbs, least first, the
\* last one not zero; <<>> is zero.  Where a step hands a computed number
\* on, {F(v) : v \in {e}} names the value of e as v, so that it is worked
\* out once.
RECURSIVE BigMulAdd(_, _, _)
\* x * c + a, for c <= 4096 and a < 4096
BigMulAdd(x, c, a) ==
    IF x = <<>> THEN (IF a = 0 THEN <<>> ELSE <<a>>)
    ELSE <<(x[1] * c + a) % 4096>>
         \o BigMulAdd(Tail(x), c, (x[1] * c + a) \div 4096)

RECURSIVE BigOfDigits(_, _)
\* The number whose decimal digits are those of acc followed by ds.
BigOfDigits(ds, acc) ==
    IF ds = <<>> THEN acc
    ELSE CHOOSE r \in {BigOfDigits(Tail(ds), v) :
                          v \in {BigMulAdd(acc, 10, ds[1])}} : TRUE

RECURSIVE BigPow10(_, _)
\* x * 10^k
BigPow10(x, k) ==
    IF k = 0 THEN x
    ELSE IF k >= 3
    THEN CHOOSE r \in {BigPow10(v, k - 3) :
                          v \in {BigMulAdd(x, 1000, 0)}} : TRUE
    ELSE CHOOSE r \in {BigPow10(v, k - 1) : v \in {BigMulAdd(x, 10, 0)}} : TRUE

BigBitLen(x) ==
    IF x = <<>> THEN 0 ELSE 12 * (Len(x) - 1) + BitLen(x[Len(x)])

\* x * 2^s, for x # 0
BigShl(x, s) ==
    [i \in 1..(s \div 12) |-> 0] \o BigMulAdd(x, 2^(s % 12), 0)

RECURSIVE BigTrim(_)
BigTrim(x) ==
    IF x # <<>> /\ x[Len(x)] = 0
    THEN CHOOSE r \in {BigTrim(v) : v \in {SubSeq(x, 1, Len(x) - 1)}} : TRUE
    ELSE x

\* x \div 2
BigHalve(x) ==
    BigTrim([i \in 1..Len(x) |->
                x[i] \div 2 + (IF i < Len(x) THEN (x[i + 1] % 2) * 2048 ELSE 0)])

RECURSIVE BigLtAt(_, _, _)
\* x < y for two numbers of equal length, compared from limb i down.
BigLtAt(x, y, i) ==
    IF i = 0 THEN FALSE
    ELSE IF x[i] # y[i] THEN x[i] < y[i]
    ELSE BigLtAt(x, y, i - 1)

BigLt(x, y) ==
    IF Len(x) # Len(y) THEN Len(x) < Len(y) ELSE BigLtAt(x, y, Len(x))

RECURSIVE BigSubAt(_, _, _, _)
\* The limbs of x - y from limb i up, with a borrow.
BigSubAt(x, y, i, borrow) ==
    IF i > Len(x) THEN <<>>
    ELSE <<(x[i] - (IF i <= Len(y) THEN y[i] ELSE 0) - borrow + 4096) % 4096>>
         \o BigSubAt(x, y, i + 1,
                     IF x[i] - (IF i <= Len(y) THEN y[i] ELSE 0) - borrow < 0
                     THEN 1 ELSE 0)

\* x - y for x >= y
BigSub(x, y) == BigTrim(BigSubAt(x, y, 1, 0))

RECURSIVE BigQuot(_, _, _, _)
\* <<q + a \div (t / 2^i), whether a remainder is left>>, where t is a
\* multiple of 2^i and a < 2 * t: one quotient bit a step.
BigQuot(a, t, i, q) ==
    IF i = 0
    THEN (IF BigLt(a, t) THEN <<q, a # <<>>>> ELSE <<q + 1, BigSub(a, t) # <<>>>>)
    ELSE IF BigLt(a, t)
    THEN CHOOSE r \in {BigQuot(a, h, i - 1, q) : h \in {BigHalve(t)}} : TRUE
    ELSE CHOOSE r \in {BigQuot(v, h, i - 1, q + 2^i) :
                          v \in {BigSub(a, t)}, h \in {BigHalve(t)}} : TRUE

\* The quotient qs[1] of 26 or 27 bits in units of 2^k, and whether a
\* remainder was left, rounded.
BigRound(qs, k) ==
    CHOOSE r \in {Shrink(v[1], v[2], k, BitLen(v[1]) - 24) : v \in {qs}} : TRUE

\* n / d rounded, where k == BigBitLen(n) - BigBitLen(d) - 26 scales the
\* quotient to 26 or 27 bits.
BigRatioAt(n, d, k) ==
    IF k >= 0
    THEN CHOOSE r \in {BigRound(BigQuot(n, t, 26, 0), k) :
                          t \in {BigShl(d, k + 26)}} : TRUE
    ELSE CHOOSE r \in {BigRound(BigQuot(a, t, 26, 0), k) :
                          a \in {BigShl(n, -k)}, t \in {BigShl(d, 26)}} : TRUE

\* The f32 nearest to n / d, for n > 0 and d > 0.
BigRatio(n, d) == BigRatioAt(n, d, BigBitLen(n) - BigBitLen(d) - 26)

RECURSIVE ReadDigits(_, _)
\* The digits at the cursor appended to ds, and the cursor after them.
ReadDigits(input_, ds) ==
    IF Len(input_) > 0 /\ digit(input_[1]) >= 0
    THEN CHOOSE r \in {ReadDigits(v, w) :
                          v \in {From(input_, 1)},
                          w \in {Append(ds, digit(input_[1]))}} : TRUE
    ELSE [digits |-> ds, rest |-> input_]

ReadFractionOf(ip, fp) ==
    [digits |-> fp.digits, n |-> Len(fp.digits) - Len(ip.digits),
     rest |-> fp.rest]

\* The digits after the point, if any, appended to the integer digits ip;
\* n counts them.
ReadFraction(ip) ==
    IF FirstIs(ip.rest, 46)
    THEN ReadFractionOf(ip, ReadDigits(From(ip.rest, 1), ip.digits))
    ELSE [digits |-> ip.digits, n |-> 0, rest |-> ip.rest]

RECURSIVE ExponentDigits(_, _)
\* The value of a run of exponent digits; past 100000 further digits no
\* longer change a result that is already infinite or zero.
ExponentDigits(input_, acc) ==
    IF Len(input_) > 0 /\ digit(input_[1]) >= 0
    THEN CHOOSE r \in {ExponentDigits(v, IF acc >= 100000 THEN acc
                                          ELSE acc * 10 + digit(input_[1])) :
                          v \in {From(input_, 1)}} : TRUE
    ELSE acc

\* The signed decimal exponent, 0 when there is none.
ReadExponent(rest) ==
    IF FirstIs(rest, 101) \/ FirstIs(rest, 69)
    THEN (IF FirstIs(From(rest, 1), 45) THEN -1 ELSE 1)
         * ExponentDigits(skip_sign(From(rest, 1)), 0)
    ELSE 0

RECURSIVE StripZeros(_)
StripZeros(ds) ==
    IF ds # <<>> /\ ds[1] = 0 THEN StripZeros(Tail(ds)) ELSE ds

\* The f32 nearest to ds * 10^x, ds being decimal digits without a leading
\* zero.  10^39 and more is infinite; less than 10^-46 is zero.
Scale10(ds, x) ==
    IF ds = <<>> THEN F32Zero
    ELSE IF Len(ds) - 1 + x >= 39 THEN F32Inf
    ELSE IF Len(ds) + x <= -46 THEN F32Zero
    ELSE IF x >= 0
    THEN CHOOSE r \in {BigRatio(n, <<1>>) :
                          n \in {BigPow10(BigOfDigits(ds, <<>>), x)}} : TRUE
    ELSE CHOOSE r \in {BigRatio(n, d) : n \in {BigOfDigits(ds, <<>>)},
                                         d \in {BigPow10(<<1>>, -x)}} : TRUE

Decimal(fp) == Scale10(StripZeros(fp.digits), ReadExponent(fp.rest) - fp.n)

\* str::parse::<f32>() of a numeral consume_number accepted: the decimal
\* value digits * 10^(exponent - fraction length), correctly rounded.
StrToF32(text) ==
    CHOOSE r \in {WithSign(FirstIs(text, 45), v) :
                     v \in {Decimal(ReadFraction(ReadDigits(skip_sign(text),
                                                            <<>>)))}} : TRUE

\* Ok((&input[pos..], str::from_utf8(&input[..pos]).unwrap().parse()))
number_at(input_, pos) ==
    Ok(From(input_, pos), StrToF32(SubSeq(input_, 1, pos)))

\* let pos = input.len() - consume_number(input)?.len();
number_token(input_, r) ==
    IF ~r.ok THEN Err ELSE number_at(input_, Len(input_) - Len(r.rest))

parse_number(input_) == number_token(input_, consume_number(input_))

\* let input = consume_byte(input, b'%')?; Ok((input, value / 100.))
percentage_of(r) ==
    IF ~r.ok THEN Err
    ELSE IF ~consume_byte(r.rest, 37).ok THEN Err
    ELSE Ok(consume_byte(r.rest, 37).rest, F32Div(r.value, F32OfInt(100)))

\* <percentage> = <number> %
parse_percentage(input_) == percentage_of(parse_number(input_))

\* number_percentage_of with the percent sign required.
number_percentage_strict(r) == percentage_of(r)

\* number_percentage_of with a bare number taken as it is.
number_percentage_as_written(r) ==
    IF ~r.ok THEN Err
    ELSE IF consume_byte(r.rest, 37).ok
    THEN Ok(consume_byte(r.rest, 37).rest, F32Div(r.value, F32OfInt(100)))
    ELSE Ok(r.rest, r.value)

\* if let Ok(input) = consume_byte(input, b'%') { .. } else { .. }
number_percentage_of(r) ==
    IF ~r.ok THEN Err
    ELSE IF consume_byte(r.rest, 37).ok
    THEN Ok(consume_byte(r.rest, 37).rest, F32Div(r.value, F32OfInt(100)))
    ELSE Ok(r.rest, F32Div(r.value, F32OfInt(100)))

parse_number_percentage(input_) == number_percentage_of(parse_number(input_))

Number(value) == [tag |-> "Number", v |-> value]
Percentage(value) == [tag |-> "Percentage", v |-> value]

\* if let Ok(input) = consume_byte(input, b'%') { .. } else { .. }
number_or_percentage_of(r) ==
    IF ~r.ok THEN Err
    ELSE IF consume_byte(r.rest, 37).ok
    THEN Ok(consume_byte(r.rest, 37).rest,
            Percentage(F32Div(r.value, F32OfInt(100))))
    ELSE Ok(r.rest, Number(r.value))

parse_number_or_percentage(input_) ==
    number_or_percentage_of(parse_number(input_))

\* let alpha = match alpha { .. }; let alpha = clamp_unit_f32(alpha);
alpha_of(r) == IF ~r.ok THEN Err ELSE Ok(r.rest, clamp_unit_f32(r.value.v))

\* <alpha-value> = <number> | <percentage>
parse_alpha_value(input_) == alpha_of(parse_number_or_percentage(input_))

\* The alpha with none taken in either syntax.
alpha_or_none_always(input_, legacy_syntax, a) ==
    IF a.ok THEN Ok(skip_ws(a.rest), a.value)
    ELSE none_value(consume_none(input_))

\* if let Ok((input, alpha)) = parse_alpha_value(input) { .. }
\* else if !legacy_syntax { (skip_ws(consume_none(input)?), NONE) }
\* else { return Err(()) }
alpha_or_none(input_, legacy_syntax, a) ==
    IF a.ok THEN Ok(skip_ws(a.rest), a.value)
    ELSE IF ~legacy_syntax THEN none_value(consume_none(input_))
    ELSE Err

alpha_after(input_, legacy_syntax) ==
    alpha_or_none(input_, legacy_syntax, parse_alpha_value(input_))

(***************************************************************************)
(* Hex parser.                                                             *)
(***************************************************************************)
\* hex_digit(input[i])? * 16 + hex_digit(input[i + 1])?   (i counted from 0)
HexPair(input_, i) == hex_digit(input_[i + 1]) * 16 + hex_digit(input_[i + 2])

\* HexNibble with the factor 16 in place of 17.
HexNibble_by16(input_, i) == hex_digit(input_[i + 1]) * 16

\* hex_digit(input[i])? * 17
HexNibble(input_, i) == hex_digit(input_[i + 1]) * 17

\* Whether every hex_digit(..)? of the arm succeeds.
AllHex(input_) == \A i \in 1..Len(input_) : hex_digit(input_[i]) >= 0

parse_hex(input_) ==
    CASE Len(input_) = 8 ->
            IF ~AllHex(input_) THEN Err
            ELSE OkColor(from_rgba8(HexPair(input_, 0), HexPair(input_, 2),
                                    HexPair(input_, 4), HexPair(input_, 6)))
      [] Len(input_) = 6 ->
            IF ~AllHex(input_) THEN Err
            ELSE OkColor(from_rgb8(HexPair(input_, 0), HexPair(input_, 2),
                                   HexPair(input_, 4)))
      [] Len(input_) = 4 ->
            IF ~AllHex(input_) THEN Err
            ELSE OkColor(from_rgba8(HexNibble(input_, 0), HexNibble(input_, 1),
                                    HexNibble(input_, 2), HexNibble(input_, 3)))
      [] Len(input_) = 3 ->
            IF ~AllHex(input_) THEN Err
            ELSE OkColor(from_rgb8(HexNibble(input_, 0), HexNibble(input_, 1),
                                   HexNibble(input_, 2)))
      [] OTHER -> Err

(***************************************************************************)
(* RGB parser.  44 is b',', 47 b'/', 41 b')'.  A step that fails (a ? or a *)
(* return Err) yields Err and the steps after it pass the Err on.          *)
(***************************************************************************)
\* The (input, red, legacy_syntax) after the first channel: red is
\* Some(tagged value), or the tag "None" alone for Option::None.
First(rest, red, legacy_syntax) ==
    [ok |-> TRUE, rest |-> rest, red |-> red, legacy_syntax |-> legacy_syntax]

\* match input.get(0) { Some(b',') => .., _ => .. }
rgb_separator(input_, red) ==
    IF FirstIs(input_, 44) THEN First(skip_ws(From(input_, 1)), red, TRUE)
    ELSE First(input_, red, FALSE)

\* (skip_ws(consume_none(input)?), None, false)
rgb_none_first(n) ==
    IF ~n.ok THEN Err ELSE First(skip_ws(n.rest), [tag |-> "None"], FALSE)

rgb_first_of(input_, r) ==
    IF r.ok THEN rgb_separator(skip_ws(r.rest), r.value)
    ELSE rgb_none_first(consume_none(input_))

\* let (input, red, legacy_syntax) = ...
rgb_first(input_) == rgb_first_of(input_, parse_number_or_percentage(input_))

\* The (input, red, green, blue) after the three channels.
Channels(rest, red, green, blue) ==
    [ok |-> TRUE, rest |-> rest, red |-> red, green |-> green, blue |-> blue]

\* rgb_legacy_comma with the comma optional.
rgb_legacy_comma_optional(g) ==
    IF ~g.ok THEN Err
    ELSE IF ~consume_byte(skip_ws(g.rest), 44).ok
    THEN Ok(skip_ws(g.rest), g.value)
    ELSE Ok(skip_ws(consume_byte(skip_ws(g.rest), 44).rest), g.value)

\* input = skip_ws(input); input = skip_ws(consume_byte(input, b',')?);
rgb_legacy_comma(g) ==
    IF ~g.ok THEN Err
    ELSE IF ~consume_byte(skip_ws(g.rest), 44).ok THEN Err
    ELSE Ok(skip_ws(consume_byte(skip_ws(g.rest), 44).rest), g.value)

\* rgb_legacy_numbers without the divisions by 255.
rgb_legacy_numbers_unscaled(red, green, bl) ==
    IF ~bl.ok THEN Err ELSE Channels(skip_ws(bl.rest), red, green, bl.value)

\* (input, red / 255., green / 255., blue / 255.)
rgb_legacy_numbers(red, green, bl) ==
    IF ~bl.ok THEN Err
    ELSE Channels(skip_ws(bl.rest), F32Div(red, F32OfInt(255)),
                  F32Div(green, F32OfInt(255)),
                  F32Div(bl.value, F32OfInt(255)))

rgb_legacy_blue_number(red, g) ==
    IF ~g.ok THEN Err ELSE rgb_legacy_numbers(red, g.value, parse_number(g.rest))

\* (input, red, green, blue)
rgb_legacy_percentages(red, green, bl) ==
    IF ~bl.ok THEN Err ELSE Channels(skip_ws(bl.rest), red, green, bl.value)

rgb_legacy_blue_percentage(red, g) ==
    IF ~g.ok THEN Err
    ELSE rgb_legacy_percentages(red, g.value, parse_percentage(g.rest))

\* The legacy arm of let (input, red, green, blue) = ...
rgb_legacy(input_, red) ==
    IF red.tag = "Number"
    THEN rgb_legacy_blue_number(red.v, rgb_legacy_comma(parse_number(input_)))
    ELSE rgb_legacy_blue_percentage(red.v,
                                    rgb_legacy_comma(parse_percentage(input_)))

\* rgb_scale without the division of a number by 255.
rgb_scale_unscaled(c) == c.v

\* match c { Number(c) => c / 255., Percentage(c) => c }
rgb_scale(c) == IF c.tag = "Number" THEN F32Div(c.v, F32OfInt(255)) ELSE c.v

\* match red { Some(..) => .., None => NONE }
rgb_red(red) == IF red.tag = "None" THEN NONE ELSE rgb_scale(red)

\* rgb_channel_of without the none arm.
rgb_channel_no_none(input_, r) ==
    IF r.ok THEN Ok(skip_ws(r.rest), rgb_scale(r.value)) ELSE Err

rgb_channel_of(input_, r) ==
    IF r.ok THEN Ok(skip_ws(r.rest), rgb_scale(r.value))
    ELSE none_value(consume_none(input_))

\* One modern channel: <number> | <percentage> | none
rgb_modern_channel(input_) ==
    rgb_channel_of(input_, parse_number_or_percentage(input_))

rgb_modern_of(red, green, bl) ==
    IF ~bl.ok THEN Err ELSE Channels(bl.rest, rgb_red(red), green, bl.value)

rgb_modern_blue(red, g) ==
    IF ~g.ok THEN Err ELSE rgb_modern_of(red, g.value, rgb_modern_channel(g.rest))

\* The modern arm of let (input, red, green, blue) = ...
rgb_modern(input_, red) == rgb_modern_blue(red, rgb_modern_channel(input_))

\* let (input, alpha) = match (input.get(0), legacy_syntax) ...
rgb_alpha(input_, legacy_syntax) ==
    IF (FirstIs(input_, 47) /\ ~legacy_syntax)
       \/ (FirstIs(input_, 44) /\ legacy_syntax)
    THEN alpha_after(skip_ws(From(input_, 1)), legacy_syntax)
    ELSE Ok(input_, F32One)

\* The colour without the test for the closing parenthesis.
rgb_close_open(ch, a) ==
    IF ~a.ok THEN Err
    ELSE OkColor(Srgb(clamp_unit_f32(ch.red), clamp_unit_f32(ch.green),
                      clamp_unit_f32(ch.blue), a.value))

\* if input != b")" { return Err(()); }  Ok(Srgb::new(..))
rgb_close(ch, a) ==
    IF ~a.ok THEN Err
    ELSE IF a.rest # <<41>> THEN Err
    ELSE OkColor(Srgb(clamp_unit_f32(ch.red), clamp_unit_f32(ch.green),
                      clamp_unit_f32(ch.blue), a.value))

rgb_tail(legacy_syntax, ch) ==
    IF ~ch.ok THEN Err ELSE rgb_close(ch, rgb_alpha(ch.rest, legacy_syntax))

rgb_channels(f) ==
    IF ~f.ok THEN Err
    ELSE rgb_tail(f.legacy_syntax,
                  IF f.legacy_syntax THEN rgb_legacy(f.rest, f.red)
                  ELSE rgb_modern(f.rest, f.red))

parse_rgb(input_) == rgb_channels(rgb_first(input_))

(***************************************************************************)
(* Hue, and the HSL and HWB parsers.                                       *)
(***************************************************************************)
\* 2. * f32::consts::PI, the f32 6.2831855
TwoPi == <<13176795, -21>>

\* The chain with every angle divided by 360.
hue_angle_in_degrees(value, deg, grad, rad, turn) ==
    IF deg.ok THEN Ok(deg.rest, F32Div(value, F32OfInt(360)))
    ELSE IF grad.ok THEN Ok(grad.rest, F32Div(value, F32OfInt(360)))
    ELSE IF rad.ok THEN Ok(rad.rest, F32Div(value, F32OfInt(360)))
    ELSE IF turn.ok THEN Ok(turn.rest, value)
    ELSE Err

\* The else-if chain over the unit names of parse_hue.
hue_angle(value, deg, grad, rad, turn) ==
    IF deg.ok THEN Ok(deg.rest, F32Div(value, F32OfInt(360)))
    ELSE IF grad.ok THEN Ok(grad.rest, F32Div(value, F32OfInt(400)))
    ELSE IF rad.ok THEN Ok(rad.rest, F32Div(value, TwoPi))
    ELSE IF turn.ok THEN Ok(turn.rest, value)
    ELSE Err

hue_unit(input_, value) ==
    IF ~is_ident_start(input_) THEN Ok(input_, F32Div(value, F32OfInt(360)))
    ELSE hue_angle(value,
                   consume_name(input_, Name(<<"d", "e", "g">>)),
                   consume_name(input_, Name(<<"g", "r", "a", "d">>)),
                   consume_name(input_, Name(<<"r", "a", "d">>)),
                   consume_name(input_, Name(<<"t", "u", "r", "n">>)))

hue_of(r) == IF ~r.ok THEN Err ELSE hue_unit(r.rest, r.value)

\* <hue> = <number> | <angle>
parse_hue(input_) == hue_of(parse_number(input_))

\* The (input, hue, legacy_syntax) after the hue.
Hue(rest, hue, legacy_syntax) ==
    [ok |-> TRUE, rest |-> rest, hue |-> hue, legacy_syntax |-> legacy_syntax]

\* match input.get(0) { Some(b',') => .., _ => .. }
hsl_separator(input_, hue) ==
    IF FirstIs(input_, 44) THEN Hue(skip_ws(From(input_, 1)), hue, TRUE)
    ELSE Hue(input_, hue, FALSE)

\* (skip_ws(consume_none(input)?), NONE, false)
hsl_none_first(n) == IF ~n.ok THEN Err ELSE Hue(skip_ws(n.rest), NONE, FALSE)

hsl_first_of(input_, r) ==
    IF r.ok THEN hsl_separator(skip_ws(r.rest), r.value)
    ELSE hsl_none_first(consume_none(input_))

\* let (input, hue, legacy_syntax) = ...  of parse_hsl
hsl_first(input_) == hsl_first_of(input_, parse_hue(input_))

\* The (input, second, third) after the two components that follow a hue.
Pair(rest, second, third) ==
    [ok |-> TRUE, rest |-> rest, second |-> second, third |-> third]

\* input = skip_ws(input); input = skip_ws(consume_byte(input, b',')?);
hsl_legacy_comma(s) ==
    IF ~s.ok THEN Err
    ELSE IF ~consume_byte(skip_ws(s.rest), 44).ok THEN Err
    ELSE Ok(skip_ws(consume_byte(skip_ws(s.rest), 44).rest), s.value)

hsl_legacy_of(saturation, li) ==
    IF ~li.ok THEN Err ELSE Pair(skip_ws(li.rest), saturation, li.value)

hsl_legacy_lightness(s) ==
    IF ~s.ok THEN Err ELSE hsl_legacy_of(s.value, parse_percentage(s.rest))

\* hsl_legacy with a bare number allowed as the saturation.
hsl_legacy_lenient(input_) ==
    hsl_legacy_lightness(hsl_legacy_comma(parse_number_percentage(input_)))

\* The legacy arm of let (input, saturation, lightness) = ...
hsl_legacy(input_) ==
    hsl_legacy_lightness(hsl_legacy_comma(parse_percentage(input_)))

number_percentage_or_none_of(input_, r) ==
    IF r.ok THEN Ok(skip_ws(r.rest), r.value)
    ELSE none_value(consume_none(input_))

\* <number> | <percentage> | none, then whitespace: a modern saturation,
\* lightness, whiteness or blackness.
number_percentage_or_none(input_) ==
    number_percentage_or_none_of(input_, parse_number_percentage(input_))

hsl_modern_of(saturation, li) ==
    IF ~li.ok THEN Err ELSE Pair(li.rest, saturation, li.value)

hsl_modern_lightness(s) ==
    IF ~s.ok THEN Err
    ELSE hsl_modern_of(s.value, number_percentage_or_none(s.rest))

\* The modern arm of let (input, saturation, lightness) = ...
hsl_modern(input_) == hsl_modern_lightness(number_percentage_or_none(input_))

\* let (input, alpha) = match (input.get(0), legacy_syntax) ...
hsl_alpha(input_, legacy_syntax) ==
    IF (FirstIs(input_, 47) /\ ~legacy_syntax)
       \/ (FirstIs(input_, 44) /\ legacy_syntax)
    THEN alpha_after(skip_ws(From(input_, 1)), legacy_syntax)
    ELSE Ok(input_, F32One)

\* if input != b")" { return Err(()); }  Ok(Srgb::from(Hsla { .. }))
hsl_close(hue, sl, a) ==
    IF ~a.ok THEN Err
    ELSE IF a.rest # <<41>> THEN Err
    ELSE OkColor(SrgbFromHsla(normalize_hue(hue), clamp_unit_f32(sl.second),
                              clamp_unit_f32(sl.third), a.value))

hsl_tail(hue, legacy_syntax, sl) ==
    IF ~sl.ok THEN Err
    ELSE hsl_close(hue, sl, hsl_alpha(sl.rest, legacy_syntax))

hsl_components(f) ==
    IF ~f.ok THEN Err
    ELSE hsl_tail(f.hue, f.legacy_syntax,
                  IF f.legacy_syntax THEN hsl_legacy(f.rest)
                  ELSE hsl_modern(f.rest))

parse_hsl(input_) == hsl_components(hsl_first(input_))

hwb_first_of(input_, r) ==
    IF r.ok THEN Ok(skip_ws(r.rest), r.value)
    ELSE none_value(consume_none(input_))

\* let (input, hue) = ...  of parse_hwb
hwb_first(input_) == hwb_first_of(input_, parse_hue(input_))

hwb_rest_of(whiteness, bk) ==
    IF ~bk.ok THEN Err ELSE Pair(bk.rest, whiteness, bk.value)

hwb_blackness(w) ==
    IF ~w.ok THEN Err
    ELSE hwb_rest_of(w.value, number_percentage_or_none(w.rest))

\* let (input, whiteness) = ...; let (input, blackness) = ...
hwb_rest(input_) == hwb_blackness(number_percentage_or_none(input_))

\* The alpha of hwb after a slash or a comma.
hwb_alpha_comma(input_) ==
    IF FirstIs(input_, 47) \/ FirstIs(input_, 44)
    THEN alpha_after(skip_ws(From(input_, 1)), FALSE)
    ELSE Ok(input_, F32One)

\* let (input, alpha) = match input.get(0) { Some(b'/') => .., _ => .. }
hwb_alpha(input_) ==
    IF FirstIs(input_, 47) THEN alpha_after(skip_ws(From(input_, 1)), FALSE)
    ELSE Ok(input_, F32One)

\* if input != b")" { return Err(()); }  Ok(Srgb::from(Hwba { .. }))
hwb_close(hue, wb, a) ==
    IF ~a.ok THEN Err
    ELSE IF a.rest # <<41>> THEN Err
    ELSE OkColor(SrgbFromHwba(normalize_hue(hue), clamp_unit_f32(wb.second),
                              clamp_unit_f32(wb.third), a.value))

hwb_tail(hue, wb) ==
    IF ~wb.ok THEN Err ELSE hwb_close(hue, wb, hwb_alpha(wb.rest))

hwb_components(h) ==
    IF ~h.ok THEN Err ELSE hwb_tail(h.value, hwb_rest(h.rest))

parse_hwb(input_) == hwb_components(hwb_first(input_))

(***************************************************************************)
(* Named colours.                                                          *)
(***************************************************************************)
NAMED_MAX_LEN == 20

\* The rgb!(..) arms of the match, in its order.
NamedColors ==
    <<
      <<<<"a", "l", "i", "c", "e", "b", "l", "u", "e">>,
        240, 248, 255>>,
      <<<<"a", "n", "t", "i", "q", "u", "e", "w", "h", "i", "t", "e">>,
        250, 235, 215>>,
      <<<<"a", "q", "u", "a">>,
        0, 255, 255>>,
      <<<<"a", "q", "u", "a", "m", "a", "r", "i", "n", "e">>,
        127, 255, 212>>,
      <<<<"a", "z", "u", "r", "e">>,
        240, 255, 255>>,
      <<<<"b", "e", "i", "g", "e">>,
        245, 245, 220>>,
      <<<<"b", "i", "s", "q", "u", "e">>,
        255, 228, 196>>,
      <<<<"b", "l", "a", "c", "k">>,
        0, 0, 0>>,
      <<<<"b", "l", "a", "n", "c", "h", "e", "d", "a", "l", "m", "o", "n", "d">>,
        255, 235, 205>>,
      <<<<"b", "l", "u", "e">>,
        0, 0, 255>>,
      <<<<"b", "l", "u", "e", "v", "i", "o", "l", "e", "t">>,
        138, 43, 226>>,
      <<<<"b", "r", "o", "w", "n">>,
        165, 42, 42>>,
      <<<<"b", "u", "r", "l", "y", "w", "o", "o", "d">>,
        222, 184, 135>>,
      <<<<"c", "a", "d", "e", "t", "b", "l", "u", "e">>,
        95, 158, 160>>,
      <<<<"c", "h", "a", "r", "t", "r", "e", "u", "s", "e">>,
        127, 255, 0>>,
      <<<<"c", "h", "o", "c", "o", "l", "a", "t", "e">>,
        210, 105, 30>>,
      <<<<"c", "o", "r", "a", "l">>,
        255, 127, 80>>,
      <<<<"c", "o", "r", "n", "f", "l", "o", "w", "e", "r", "b", "l", "u", "e">>,
        100, 149, 237>>,
      <<<<"c", "o", "r", "n", "s", "i", "l", "k">>,
        255, 248, 220>>,
      <<<<"c", "r", "i", "m", "s", "o", "n">>,
        220, 20, 60>>,
      <<<<"c", "y", "a", "n">>,
        0, 255, 255>>,
      <<<<"d", "a", "r", "k", "b", "l", "u", "e">>,
        0, 0, 139>>,
      <<<<"d", "a", "r", "k", "c", "y", "a", "n">>,
        0, 139, 139>>,
      <<<<"d", "a", "r", "k", "g", "o", "l", "d", "e", "n", "r", "o", "d">>,
        184, 134, 11>>,
      <<<<"d", "a", "r", "k", "g", "r", "a", "y">>,
        169, 169, 169>>,
      <<<<"d", "a", "r", "k", "g", "r", "e", "e", "n">>,
        0, 100, 0>>,
      <<<<"d", "a", "r", "k", "g", "r", "e", "y">>,
        169, 169, 169>>,
      <<<<"d", "a", "r", "k", "k", "h", "a", "k", "i">>,
        189, 183, 107>>,
      <<<<"d", "a", "r", "k", "m", "a", "g", "e", "n", "t", "a">>,
        139, 0, 139>>,
      <<<<"d", "a", "r", "k", "o", "l", "i", "v", "e", "g", "r", "e", "e", "n">>,
        85, 107, 47>>,
      <<<<"d", "a", "r", "k", "o", "r", "a", "n", "g", "e">>,
        255, 140, 0>>,
      <<<<"d", "a", "r", "k", "o", "r", "c", "h", "i", "d">>,
        153, 50, 204>>,
      <<<<"d", "a", "r", "k", "r", "e", "d">>,
        139, 0, 0>>,
      <<<<"d", "a", "r", "k", "s", "a", "l", "m", "o", "n">>,
        233, 150, 122>>,
      <<<<"d", "a", "r", "k", "s", "e", "a", "g", "r", "e", "e", "n">>,
        143, 188, 143>>,
      <<<<"d", "a", "r", "k", "s", "l", "a", "t", "e", "b", "l", "u", "e">>,
        72, 61, 139>>,
      <<<<"d", "a", "r", "k", "s", "l", "a", "t", "e", "g", "r", "a", "y">>,
        47, 79, 79>>,
      <<<<"d", "a", "r", "k", "s", "l", "a", "t", "e", "g", "r", "e", "y">>,
        47, 79, 79>>,
      <<<<"d", "a", "r", "k", "t", "u", "r", "q", "u", "o", "i", "s", "e">>,
        0, 206, 209>>,
      <<<<"d", "a", "r", "k", "v", "i", "o", "l", "e", "t">>,
        148, 0, 211>>,
      <<<<"d", "e", "e", "p", "p", "i", "n", "k">>,
        255, 20, 147>>,
      <<<<"d", "e", "e", "p", "s", "k", "y", "b", "l", "u", "e">>,
        0, 191, 255>>,
      <<<<"d", "i", "m", "g", "r", "a", "y">>,
        105, 105, 105>>,
      <<<<"d", "i", "m", "g", "r", "e", "y">>,
        105, 105, 105>>,
      <<<<"d", "o", "d", "g", "e", "r", "b", "l", "u", "e">>,
        30, 144, 255>>,
      <<<<"f", "i", "r", "e", "b", "r", "i", "c", "k">>,
        178, 34, 34>>,
      <<<<"f", "l", "o", "r", "a", "l", "w", "h", "i", "t", "e">>,
        255, 250, 240>>,
      <<<<"f", "o", "r", "e", "s", "t", "g", "r", "e", "e", "n">>,
        34, 139, 34>>,
      <<<<"f", "u", "c", "h", "s", "i", "a">>,
        255, 0, 255>>,
      <<<<"g", "a", "i", "n", "s", "b", "o", "r", "o">>,
        220, 220, 220>>,
      <<<<"g", "h", "o", "s", "t", "w", "h", "i", "t", "e">>,
        248, 248, 255>>,
      <<<<"g", "o", "l", "d">>,
        255, 215, 0>>,
      <<<<"g", "o", "l", "d", "e", "n", "r", "o", "d">>,
        218, 165, 32>>,
      <<<<"g", "r", "a", "y">>,
        128, 128, 128>>,
      <<<<"g", "r", "e", "e", "n">>,
        0, 128, 0>>,
      <<<<"g", "r", "e", "e", "n", "y", "e", "l", "l", "o", "w">>,
        173, 255, 47>>,
      <<<<"g", "r", "e", "y">>,
        128, 128, 128>>,
      <<<<"h", "o", "n", "e", "y", "d", "e", "w">>,
        240, 255, 240>>,
      <<<<"h", "o", "t", "p", "i", "n", "k">>,
        255, 105, 180>>,
      <<<<"i", "n", "d", "i", "a", "n", "r", "e", "d">>,
        205, 92, 92>>,
      <<<<"i", "n", "d", "i", "g", "o">>,
        75, 0, 130>>,
      <<<<"i", "v", "o", "r", "y">>,
        255, 255, 240>>,
      <<<<"k", "h", "a", "k", "i">>,
        240, 230, 140>>,
      <<<<"l", "a", "v", "e", "n", "d", "e", "r">>,
        230, 230, 250>>,
      <<<<"l", "a", "v", "e", "n", "d", "e", "r", "b", "l", "u", "s", "h">>,
        255, 240, 245>>,
      <<<<"l", "a", "w", "n", "g", "r", "e", "e", "n">>,
        124, 252, 0>>,
      <<<<"l", "e", "m", "o", "n", "c", "h", "i", "f", "f", "o", "n">>,
        255, 250, 205>>,
      <<<<"l", "i", "g", "h", "t", "b", "l", "u", "e">>,
        173, 216, 230>>,
      <<<<"l", "i", "g", "h", "t", "c", "o", "r", "a", "l">>,
        240, 128, 128>>,
      <<<<"l", "i", "g", "h", "t", "c", "y", "a", "n">>,
        224, 255, 255>>,
      <<<<"l", "i", "g", "h", "t", "g", "o", "l", "d", "e", "n", "r", "o", "d", "y", "e", "l", "l", "o", "w">>,
        250, 250, 210>>,
      <<<<"l", "i", "g", "h", "t", "g", "r", "a", "y">>,
        211, 211, 211>>,
      <<<<"l", "i", "g", "h", "t", "g", "r", "e", "e", "n">>,
        144, 238, 144>>,
      <<<<"l", "i", "g", "h", "t", "g", "r", "e", "y">>,
        211, 211, 211>>,
      <<<<"l", "i", "g", "h", "t", "p", "i", "n", "k">>,
        255, 182, 193>>,
      <<<<"l", "i", "g", "h", "t", "s", "a", "l", "m", "o", "n">>,
        255, 160, 122>>,
      <<<<"l", "i", "g", "h", "t", "s", "e", "a", "g", "r", "e", "e", "n">>,
        32, 178, 170>>,
      <<<<"l", "i", "g", "h", "t", "s", "k", "y", "b", "l", "u", "e">>,
        135, 206, 250>>,
      <<<<"l", "i", "g", "h", "t", "s", "l", "a", "t", "e", "g", "r", "a", "y">>,
        119, 136, 153>>,
      <<<<"l", "i", "g", "h", "t", "s", "l", "a", "t", "e", "g", "r", "e", "y">>,
        119, 136, 153>>,
      <<<<"l", "i", "g", "h", "t", "s", "t", "e", "e", "l", "b", "l", "u", "e">>,
        176, 196, 222>>,
      <<<<"l", "i", "g", "h", "t", "y", "e", "l", "l", "o", "w">>,
        255, 255, 224>>,
      <<<<"l", "i", "m", "e">>,
        0, 255, 0>>,
      <<<<"l", "i", "m", "e", "g", "r", "e", "e", "n">>,
        50, 205, 50>>,
      <<<<"l", "i", "n", "e", "n">>,
        250, 240, 230>>,
      <<<<"m", "a", "g", "e", "n", "t", "a">>,
        255, 0, 255>>,
      <<<<"m", "a", "r", "o", "o", "n">>,
        128, 0, 0>>,
      <<<<"m", "e", "d", "i", "u", "m", "a", "q", "u", "a", "m", "a", "r", "i", "n", "e">>,
        102, 205, 170>>,
      <<<<"m", "e", "d", "i", "u", "m", "b", "l", "u", "e">>,
        0, 0, 205>>,
      <<<<"m", "e", "d", "i", "u", "m", "o", "r", "c", "h", "i", "d">>,
        186, 85, 211>>,
      <<<<"m", "e", "d", "i", "u", "m", "p", "u", "r", "p", "l", "e">>,
        147, 112, 219>>,
      <<<<"m", "e", "d", "i", "u", "m", "s", "e", "a", "g", "r", "e", "e", "n">>,
        60, 179, 113>>,
      <<<<"m", "e", "d", "i", "u", "m", "s", "l", "a", "t", "e", "b", "l", "u", "e">>,
        123, 104, 238>>,
      <<<<"m", "e", "d", "i", "u", "m", "s", "p", "r", "i", "n", "g", "g", "r", "e", "e", "n">>,
        0, 250, 154>>,
      <<<<"m", "e", "d", "i", "u", "m", "t", "u", "r", "q", "u", "o", "i", "s", "e">>,
        72, 209, 204>>,
      <<<<"m", "e", "d", "i", "u", "m", "v", "i", "o", "l", "e", "t", "r", "e", "d">>,
        199, 21, 133>>,
      <<<<"m", "i", "d", "n", "i", "g", "h", "t", "b", "l", "u", "e">>,
        25, 25, 112>>,
      <<<<"m", "i", "n", "t", "c", "r", "e", "a", "m">>,
        245, 255, 250>>,
      <<<<"m", "i", "s", "t", "y", "r", "o", "s", "e">>,
        255, 228, 225>>,
      <<<<"m", "o", "c", "c", "a", "s", "i", "n">>,
        255, 228, 181>>,
      <<<<"n", "a", "v", "a", "j", "o", "w", "h", "i", "t", "e">>,
        255, 222, 173>>,
      <<<<"n", "a", "v", "y">>,
        0, 0, 128>>,
      <<<<"o", "l", "d", "l", "a", "c", "e">>,
        253, 245, 230>>,
      <<<<"o", "l", "i", "v", "e">>,
        128, 128, 0>>,
      <<<<"o", "l", "i", "v", "e", "d", "r", "a", "b">>,
        107, 142, 35>>,
      <<<<"o", "r", "a", "n", "g", "e">>,
        255, 165, 0>>,
      <<<<"o", "r", "a", "n", "g", "e", "r", "e", "d">>,
        255, 69, 0>>,
      <<<<"o", "r", "c", "h", "i", "d">>,
        218, 112, 214>>,
      <<<<"p", "a", "l", "e", "g", "o", "l", "d", "e", "n", "r", "o", "d">>,
        238, 232, 170>>,
      <<<<"p", "a", "l", "e", "g", "r", "e", "e", "n">>,
        152, 251, 152>>,
      <<<<"p", "a", "l", "e", "t", "u", "r", "q", "u", "o", "i", "s", "e">>,
        175, 238, 238>>,
      <<<<"p", "a", "l", "e", "v", "i", "o", "l", "e", "t", "r", "e", "d">>,
        219, 112, 147>>,
      <<<<"p", "a", "p", "a", "y", "a", "w", "h", "i", "p">>,
        255, 239, 213>>,
      <<<<"p", "e", "a", "c", "h", "p", "u", "f", "f">>,
        255, 218, 185>>,
      <<<<"p", "e", "r", "u">>,
        205, 133, 63>>,
      <<<<"p", "i", "n", "k">>,
        255, 192, 203>>,
      <<<<"p", "l", "u", "m">>,
        221, 160, 221>>,
      <<<<"p", "o", "w", "d", "e", "r", "b", "l", "u", "e">>,
        176, 224, 230>>,
      <<<<"p", "u", "r", "p", "l", "e">>,
        128, 0, 128>>,
      <<<<"r", "e", "b", "e", "c", "c", "a", "p", "u", "r", "p", "l", "e">>,
        102, 51, 153>>,
      <<<<"r", "e", "d">>,
        255, 0, 0>>,
      <<<<"r", "o", "s", "y", "b", "r", "o", "w", "n">>,
        188, 143, 143>>,
      <<<<"r", "o", "y", "a", "l", "b", "l", "u", "e">>,
        65, 105, 225>>,
      <<<<"s", "a", "d", "d", "l", "e", "b", "r", "o", "w", "n">>,
        139, 69, 19>>,
      <<<<"s", "a", "l", "m", "o", "n">>,
        250, 128, 114>>,
      <<<<"s", "a", "n", "d", "y", "b", "r", "o", "w", "n">>,
        244, 164, 96>>,
      <<<<"s", "e", "a", "g", "r", "e", "e", "n">>,
        46, 139, 87>>,
      <<<<"s", "e", "a", "s", "h", "e", "l", "l">>,
        255, 245, 238>>,
      <<<<"s", "i", "e", "n", "n", "a">>,
        160, 82, 45>>,
      <<<<"s", "i", "l", "v", "e", "r">>,
        192, 192, 192>>,
      <<<<"s", "k", "y", "b", "l", "u", "e">>,
        135, 206, 235>>,
      <<<<"s", "l", "a", "t", "e", "b", "l", "u", "e">>,
        106, 90, 205>>,
      <<<<"s", "l", "a", "t", "e", "g", "r", "a", "y">>,
        112, 128, 144>>,
      <<<<"s", "l", "a", "t", "e", "g", "r", "e", "y">>,
        112, 128, 144>>,
      <<<<"s", "n", "o", "w">>,
        255, 250, 250>>,
      <<<<"s", "p", "r", "i", "n", "g", "g", "r", "e", "e", "n">>,
        0, 255, 127>>,
      <<<<"s", "t", "e", "e", "l", "b", "l", "u", "e">>,
        70, 130, 180>>,
      <<<<"t", "a", "n">>,
        210, 180, 140>>,
      <<<<"t", "e", "a", "l">>,
        0, 128, 128>>,
      <<<<"t", "h", "i", "s", "t", "l", "e">>,
        216, 191, 216>>,
      <<<<"t", "o", "m", "a", "t", "o">>,
        255, 99, 71>>,
      <<<<"t", "u", "r", "q", "u", "o", "i", "s", "e">>,
        64, 224, 208>>,
      <<<<"v", "i", "o", "l", "e", "t">>,
        238, 130, 238>>,
      <<<<"w", "h", "e", "a", "t">>,
        245, 222, 179>>,
      <<<<"w", "h", "i", "t", "e">>,
        255, 255, 255>>,
      <<<<"w", "h", "i", "t", "e", "s", "m", "o", "k", "e">>,
        245, 245, 245>>,
      <<<<"y", "e", "l", "l", "o", "w">>,
        255, 255, 0>>,
      <<<<"y", "e", "l", "l", "o", "w", "g", "r", "e", "e", "n">>,
        154, 205, 50>>
    >>

NamedRow(row) == <<Name(row[1]), row[2], row[3], row[4]>>

NamedTable == {NamedRow(NamedColors[i]) : i \in DOMAIN NamedColors}

Transparent == Name(<<"t", "r", "a", "n", "s", "p", "a", "r", "e", "n", "t">>)

\* The arm of the match that name selects.
named_arm(name, hit) ==
    IF hit # {} THEN OkColor(from_rgb8((CHOOSE e \in hit : TRUE)[2],
                                       (CHOOSE e \in hit : TRUE)[3],
                                       (CHOOSE e \in hit : TRUE)[4]))
    ELSE IF name = Transparent
    THEN OkColor(Srgb(F32Zero, F32Zero, F32Zero, F32Zero))
    ELSE Err

\* match &*name { .. }
named_match(name) == named_arm(name, {e \in NamedTable : e[1] = name})

parse_named(input_) ==
    IF Len(input_) > NAMED_MAX_LEN THEN Err
    ELSE named_match([i \in 1..Len(input_) |-> to_ascii_lowercase(input_[i])])

(***************************************************************************)
(* Grammar dispatcher.  35 is b'#'.                                        *)
(***************************************************************************)
\* The chain with rgba( and hsla( handed to the other parser.
dispatch_crossed(input_, hash, rgb, rgba, hsl, hsla, hwb) ==
    IF hash.ok THEN parse_hex(hash.rest)
    ELSE IF rgb.ok THEN parse_rgb(rgb.rest)
    ELSE IF rgba.ok THEN parse_hsl(rgba.rest)
    ELSE IF hsl.ok THEN parse_hsl(hsl.rest)
    ELSE IF hsla.ok THEN parse_rgb(hsla.rest)
    ELSE IF hwb.ok THEN parse_hwb(hwb.rest)
    ELSE parse_named(input_)

\* The if-let chain of parse_css_color over the prefixes tried in turn.
dispatch(input_, hash, rgb, rgba, hsl, hsla, hwb) ==
    IF hash.ok THEN parse_hex(hash.rest)
    ELSE IF rgb.ok THEN parse_rgb(rgb.rest)
    ELSE IF rgba.ok THEN parse_rgb(rgba.rest)
    ELSE IF hsl.ok THEN parse_hsl(hsl.rest)
    ELSE IF hsla.ok THEN parse_hsl(hsla.rest)
    ELSE IF hwb.ok THEN parse_hwb(hwb.rest)
    ELSE parse_named(input_)

parse_css_color(input_) ==
    dispatch(input_,
             consume_byte(input_, 35),
             consume_function(input_, Name(<<"r", "g", "b">>)),
             consume_function(input_, Name(<<"r", "g", "b", "a">>)),
             consume_function(input_, Name(<<"h", "s", "l">>)),
             consume_function(input_, Name(<<"h", "s", "l", "a">>)),
             consume_function(input_, Name(<<"h", "w", "b">>)))

\* The parse of the input without the white space before it.
from_str_trimmed(s) == parse_css_color(skip_ws(s))

\* impl FromStr for Srgb: Ok(Srgb) or Err(ParseColorError)
from_str(s) == parse_css_color(s)

(***************************************************************************)
(* The inputs.  An input is written from tokens; the parser sees only the  *)
(* bytes.  Hex inputs are <<"#", digit, ...>>; functional inputs are       *)
(* <<function, c1, s1, c2, s2, c3, s3, alpha, close>>.                     *)
(***************************************************************************)
MaxHexLen == 9

Hash == <<"#">>

\* Every hex digit, and the bytes next to the three digit ranges.
HexChars ==
    {"0", "1", "2", "3", "4", "5", "6", "7", "8", "9", "a", "b", "c", "d",
     "e", "f", "A", "B", "C", "D", "E", "F"}
EdgeChars == {"/", ":", "@", "G", "BQ", "g", "+", "-", " ", "x80"}

\* "f" repeated n times, with position k (if any) holding c.
Run(n, k, c) == [i \in 1..n |-> IF i = k THEN <<c>> ELSE <<"f">>]

\* Hex strings of every length up to MaxHexLen with at most one byte that
\* is not "f" (tests.rs, fn hex).
HexRuns ==
    {<<Hash>> \o Run(n, 0, "f") : n \in 0..MaxHexLen}
    \cup {<<Hash>> \o Run(n, k, c) :
            n \in 1..MaxHexLen, k \in 1..MaxHexLen, c \in HexChars \cup EdgeChars}

\* The channel pairs 00, 0a, 7F, 80, C8, fF of a long form and the nibbles
\* of a short form.
PairSample ==
    {<<"0", "0">>, <<"0", "a">>, <<"7", "F">>, <<"8", "0">>, <<"C", "8">>,
     <<"f", "F">>}
NibbleSample == {"0", "1", "9", "a", "F"}

HexLong ==
    {<<Hash, <<p[1]>>, <<p[2]>>, <<q[1]>>, <<q[2]>>, <<r[1]>>, <<r[2]>>>> :
        p \in PairSample, q \in PairSample, r \in PairSample}

HexShort ==
    {<<Hash, <<x>>, <<y>>, <<z>>>> :
        x \in NibbleSample, y \in NibbleSample, z \in NibbleSample}
    \cup {<<Hash, <<x>>, <<y>>, <<z>>, <<w>>>> :
        x \in NibbleSample, y \in NibbleSample, z \in NibbleSample,
        w \in NibbleSample}

\* Component tokens.
NumPlus0 == <<"+", "0">>
Num128 == <<"1", "2", "8">>
PctMinus0 == <<"-", "0", "%">>
Pct50 == <<"5", "0", "%">>
NoneTok == <<"n", "o", "n", "e">>

NumberToks == {NumPlus0, Num128}
PercentToks == {PctMinus0, Pct50}
Comps == NumberToks \cup PercentToks \cup {NoneTok}
Signed == {NumPlus0, PctMinus0}

AngleToks ==
    {<<"9", "0", "d", "e", "g">>, <<"1", "0", "0", "g", "r", "a", "d">>,
     <<"2", "r", "a", "d">>, <<".", "2", "5", "t", "u", "r", "n">>}

\* Separators between components: whitespace, a comma, or nothing.
Space == <<" ">>
Comma == <<",">>
Slash == <<"/">>
Empty == <<>>
Close == <<")">>

Seps == {Space, Comma, Empty}

AlphaToks == {<<"0", ".", "9", "5">>, <<"9", "5", "%">>, NoneTok}

\* <<s3, alpha, close>>: no alpha, an alpha after "/" or ",", a dangling
\* separator, a missing ")", and bytes after ")".
Tails ==
    {<<Empty, Empty, Close>>, <<Space, Empty, Close>>, <<Empty, Empty, Empty>>,
     <<Comma, Empty, Close>>, <<Slash, Empty, Close>>,
     <<Empty, Empty, <<")", " ">>>>}
    \cup {<<s3, a, Close>> : s3 \in {Slash, Comma}, a \in AlphaToks}

Rgb == <<"r", "g", "b", "(">>
Rgba == <<"r", "g", "b", "a", "(">>
Hsl == <<"h", "s", "l", "(">>
Hsla == <<"h", "s", "l", "a", "(">>

\* Nothing between two components only where the second starts with a sign.
Functional(fns, firsts) ==
    {<<fn, c1, s1, c2, s2, c3>> \o t :
        fn \in fns, c1 \in firsts, s1 \in Seps, c2 \in Comps, s2 \in Seps,
        c3 \in Comps, t \in Tails}

Spaced(v) ==
    /\ v[3] = Empty => v[4] \in Signed
    /\ v[5] = Empty => v[6] \in Signed

\* A legacy form that stops after its second component.
Missing ==
    {<<fn, c1, Comma, c2, s2, Empty, Empty, Empty, Close>> :
        fn \in {Rgb, Hsl}, c1 \in NumberToks \cup PercentToks,
        c2 \in NumberToks \cup PercentToks, s2 \in {Comma, Empty}}

Vectors ==
    HexRuns \cup HexLong \cup HexShort
    \cup {v \in Functional({Rgb, Rgba, Hsl, Hsla}, Comps) : Spaced(v)}
    \cup {v \in Functional({Hsl}, AngleToks) : Spaced(v) /\ v[7] = Empty}
    \cup Missing

(***************************************************************************)
(* The state machine: an input is chosen, then from_str is called on it.   *)
(***************************************************************************)
Pending == [called |-> FALSE]

Init ==
    /\ tokens \in Vectors
    /\ input = Bytes(Concat(tokens))
    /\ result = Pending

FromStr ==
    /\ ~result.called
    /\ result' = [called |-> TRUE, ret |-> from_str(input)]
    /\ UNCHANGED <<tokens, input>>

Next == FromStr

Spec == Init /\ [][Next]_vars

(***************************************************************************)
(* Properties.  They read the input through the tokens it was written      *)
(* from: a hex input is <<"#", digit, ...>>, a functional input is         *)
(* <<function, c1, s1, c2, s2, c3, s3, alpha, close>>.                     *)
(***************************************************************************)
Called == result.called

\* The text of a token sequence, as from_str receives it.
Text(ts) == Bytes(Concat(ts))

LowerHex ==
    <<"0", "1", "2", "3", "4", "5", "6", "7", "8", "9", "a", "b", "c", "d",
      "e", "f">>
UpperHex ==
    <<"0", "1", "2", "3", "4", "5", "6", "7", "8", "9", "A", "B", "C", "D",
      "E", "F">>

IsHexChar(t) == \E i \in 1..16 : t = <<LowerHex[i]>> \/ t = <<UpperHex[i]>>

\* The value 0..15 of a hex digit token.
NibbleOf(t) ==
    (CHOOSE i \in 1..16 : t = <<LowerHex[i]>> \/ t = <<UpperHex[i]>>) - 1

\* n written as a decimal number.
RECURSIVE Dec(_)
Dec(n) ==
    IF n < 10 THEN <<LowerHex[n + 1]>>
    ELSE Dec(n \div 10) \o <<LowerHex[(n % 10) + 1]>>

IsHex == Len(tokens) >= 1 /\ tokens[1] = Hash

\* A hex input of n digits, every one a hex digit.
HexOfLen(n) ==
    IsHex /\ Len(tokens) = n + 1 /\ \A i \in 2..(n + 1) : IsHexChar(tokens[i])

\* The 8-bit value of the digit pair at tokens i, i + 1.
PairOf(i) == 16 * NibbleOf(tokens[i]) + NibbleOf(tokens[i + 1])

\* rgb(R G B) for the three pairs of a 6-digit hex input.
DecimalRgb ==
    <<Rgb, Dec(PairOf(2)), Space, Dec(PairOf(4)), Space, Dec(PairOf(6)), Close>>

\* C1: a 6-digit hex string #RRGGBB parses, to the colour that rgb(R G B)
\* parses to with R, G, B written in decimal, and both have alpha 1.
HexEqualsDecimalRgb ==
    (Called /\ HexOfLen(6)) =>
        /\ result.ret.ok
        /\ result.ret = from_str(Text(DecimalRgb))
        /\ result.ret.color.alpha = F32One

\* #7F80C8 has been parsed: rgb(127 128 200).
HexEqualsDecimalRgbWitness ==
    /\ Called
    /\ tokens = <<Hash, <<"7">>, <<"F">>, <<"8">>, <<"0">>, <<"C">>, <<"8">>>>
    /\ result.ret.ok
    /\ result.ret.color.green = F32Div(F32OfInt(128), F32OfInt(255))

\* The long form of a short hex input: every digit twice.
Duplicated ==
    <<Hash>> \o Concat([i \in 1..(Len(tokens) - 1) |->
                            <<tokens[i + 1], tokens[i + 1]>>])

\* C2: a short hex form #RGB or #RGBA parses to the colour of its long form
\* #RRGGBB or #RRGGBBAA, in which every digit is written twice.
ShortHexEqualsLong ==
    (Called /\ (HexOfLen(3) \/ HexOfLen(4))) =>
        /\ result.ret.ok
        /\ result.ret = from_str(Text(Duplicated))

\* #19aF has been parsed, as #1199aaFF.
ShortHexEqualsLongWitness ==
    /\ Called
    /\ tokens = <<Hash, <<"1">>, <<"9">>, <<"a">>, <<"F">>>>
    /\ Duplicated = <<Hash, <<"1">>, <<"1">>, <<"9">>, <<"9">>, <<"a">>, <<"a">>,
                      <<"F">>, <<"F">>>>
    /\ result.ret.ok

\* C3: an input that starts with # is accepted exactly when 3, 4, 6 or 8
\* bytes follow the # and every one of them is a hex digit.
HexAcceptedIff ==
    (Called /\ IsHex) =>
        (result.ret.ok <=>
            HexOfLen(3) \/ HexOfLen(4) \/ HexOfLen(6) \/ HexOfLen(8))

\* #ffgfff, six bytes of which one is no hex digit, has been rejected.
HexAcceptedIffWitness ==
    /\ Called
    /\ tokens = <<Hash>> \o Run(6, 3, "g")
    /\ ~result.ret.ok

(***************************************************************************)
(* Functional inputs.                                                      *)
(***************************************************************************)
IsFunctional == Len(tokens) = 9

IsRgb == IsFunctional /\ tokens[1] \in {Rgb, Rgba}
IsHsl == IsFunctional /\ tokens[1] \in {Hsl, Hsla}

\* The i-th component, the separator after it, and what follows the third.
Comp(i) == tokens[2 * i]
Sep(i) == tokens[2 * i + 1]
Ending == <<tokens[7], tokens[8], tokens[9]>>

AllNumbers == \A i \in 1..3 : Comp(i) \in NumberToks
AllPercentages == \A i \in 1..3 : Comp(i) \in PercentToks
NoNone == \A i \in 1..3 : Comp(i) \in NumberToks \cup PercentToks

NumericAlpha == AlphaToks \ {NoneTok}

\* No alpha, or a comma and an alpha value, then the closing parenthesis.
LegacyTail ==
    Ending \in {<<Empty, Empty, Close>>, <<Space, Empty, Close>>}
             \cup {<<Comma, a, Close>> : a \in NumericAlpha}

\* No alpha, or a slash and an alpha value or none, then the closing
\* parenthesis.
ModernTail ==
    Ending \in {<<Empty, Empty, Close>>, <<Space, Empty, Close>>}
             \cup {<<Slash, a, Close>> : a \in AlphaToks}

\* A keyword or a unit directly before a minus sign: the two lex as one
\* identifier, so the components are not separated.
GluedAt(i) ==
    /\ Sep(i) = Empty
    /\ Comp(i) \notin NumberToks \cup PercentToks
    /\ Head(Comp(i + 1)) = "-"

Separated == ~GluedAt(1) /\ ~GluedAt(2)

\* The comma-less form of a legacy input, under the name rgb, with alpha a.
ModernForm(a) ==
    <<Rgb, Comp(1), Space, Comp(2), Space, Comp(3), Slash, a, Close>>

IsLegacyRgba ==
    /\ IsRgb
    /\ AllNumbers \/ AllPercentages
    /\ Sep(1) = Comma /\ Sep(2) = Comma
    /\ Ending \in {<<Comma, a, Close>> : a \in NumericAlpha}

\* C4: for three channels that are all numbers or all percentages and an
\* alpha value a, the comma form rgba(r,g,b,a) and the comma-less form
\* rgb(r g b / a) both parse, to the same colour; alpha 0.95 and alpha 95%
\* give the same colour.
LegacyEqualsModern ==
    (Called /\ IsLegacyRgba) =>
        /\ result.ret.ok
        /\ from_str(Text(ModernForm(tokens[8]))).ok
        /\ \A a \in NumericAlpha :
              result.ret = from_str(Text(ModernForm(a)))

\* rgba(128,+0,128,0.95) has been parsed; its channels are 128/255, 0,
\* 128/255 and its alpha is 0.95.
LegacyEqualsModernWitness ==
    /\ Called
    /\ tokens = <<Rgba, Num128, Comma, NumPlus0, Comma, Num128, Comma,
                  <<"0", ".", "9", "5">>, Close>>
    /\ result.ret.ok
    /\ result.ret.color.red = F32Div(F32OfInt(128), F32OfInt(255))
    /\ result.ret.color.alpha = F32Div(F32OfInt(95), F32OfInt(100))

IsLegacyRgb == IsRgb /\ Sep(1) = Comma

\* C5: in comma-separated rgb()/rgba() the three channels are all numbers
\* or all percentages with a comma after each of the first two: a mixed
\* combination, a missing comma, and none as a channel or as the alpha
\* fail; the inputs that remain are accepted.
LegacyRgbStrict ==
    (Called /\ IsLegacyRgb) =>
        (result.ret.ok <=>
            /\ AllNumbers \/ AllPercentages
            /\ Sep(2) = Comma
            /\ LegacyTail)

\* rgb(128,50%,128) has been rejected: a percentage between two numbers.
LegacyRgbStrictWitness ==
    /\ Called
    /\ tokens = <<Rgb, Num128, Comma, Pct50, Comma, Num128, Empty, Empty, Close>>
    /\ ~result.ret.ok

IsModernRgb == IsRgb /\ Sep(1) # Comma

\* The channel value a first token of none gives.
NoneIsZero ==
    /\ Comp(1) = NoneTok => result.ret.color.red = F32Zero
    /\ Comp(2) = NoneTok => result.ret.color.green = F32Zero
    /\ Comp(3) = NoneTok => result.ret.color.blue = F32Zero

IsPlainModern ==
    /\ Sep(1) # Comma /\ Sep(2) # Comma
    /\ NoNone
    /\ Ending \in {<<Empty, Empty, Close>>, <<Space, Empty, Close>>}

\* C7: in comma-less rgb() only number-number-number and
\* percentage-percentage-percentage are accepted; each mixed combination
\* of numbers and percentages fails.
ModernRgbUniform ==
    (Called /\ IsRgb /\ IsPlainModern) =>
        (result.ret.ok <=> AllNumbers \/ AllPercentages)

IsModernHsl == IsHsl /\ Sep(1) # Comma

ModernHslPercentages ==
    (Called /\ IsHsl /\ IsPlainModern) =>
        (result.ret.ok <=>
            /\ Comp(1) \in NumberToks
            /\ Comp(2) \in PercentToks
            /\ Comp(3) \in PercentToks)

IsLegacyHsl == IsHsl /\ Sep(1) = Comma

\* C10: comma-separated hsl()/hsla() is accepted exactly when the hue is a
\* hue value, the saturation and the lightness are percentages with a
\* comma between them, and an alpha, if any, follows a comma; a bare
\* number, a hue with a percent sign, a missing component, a missing
\* comma and none all fail.
LegacyHslStrict ==
    (Called /\ IsLegacyHsl) =>
        (result.ret.ok <=>
            /\ Comp(1) \in NumberToks \cup AngleToks
            /\ Comp(2) \in PercentToks
            /\ Comp(3) \in PercentToks
            /\ Sep(2) = Comma
            /\ LegacyTail)

\* hsl(128,50%,128) has been rejected: a bare number as the lightness.
LegacyHslStrictWitness ==
    /\ Called
    /\ tokens = <<Hsl, Num128, Comma, Pct50, Comma, Num128, Empty, Empty, Close>>
    /\ ~result.ret.ok

(***************************************************************************)
(* Hue inputs (tests.rs, fn hsl): hsl( and hwb( with a hue written as an   *)
(* integer and a unit, two percentages and an optional alpha.  A vector is *)
(* <<function, number, unit, " ", percentage, " ", percentage, tail, ")">>.*)
(***************************************************************************)
Hwb == <<"h", "w", "b", "(">>

\* n written as a decimal number with its sign.
SignedDec(n) == IF n < 0 THEN <<"-">> \o Dec(-n) ELSE Dec(n)

\* p%
Pct(p) == Dec(p) \o <<"%">>

HueNumbers == {-450, -400, -360, -30, -1, 0, 1, 30, 120, 360, 400}

NoUnit == {Empty}
DegUnits == {<<"d", "e", "g">>, <<"D", "E", "G">>, <<"d", "E", "g">>}
GradUnits == {<<"g", "r", "a", "d">>, <<"G", "R", "A", "D">>, <<"G", "r", "a", "d">>}
RadUnits == {<<"r", "a", "d">>, <<"R", "A", "D">>, <<"r", "a", "D">>}
TurnUnits == {<<"t", "u", "r", "n">>, <<"T", "U", "R", "N">>, <<"t", "U", "r", "N">>}
HueUnits == NoUnit \cup DegUnits \cup GradUnits \cup RadUnits \cup TurnUnits

\* A unit cut short, a unit with a letter too many, a unit after white
\* space, and other identifiers.
BadUnits ==
    {<<"d", "e">>, <<"g", "r", "a">>, <<"r", "a">>, <<"t", "u", "r">>,
     <<"d", "e", "g", "g">>, <<"t", "u", "r", "n", "n">>,
     <<"g", "r", "a", "d", "s">>, <<"r", "a", "d", "s">>,
     <<" ", "d", "e", "g">>, <<" ", "t", "u", "r", "n">>,
     <<"d">>, <<"x">>, <<"p", "x">>, <<"d", "e", "g", "-">>, <<"_", "d", "e", "g">>,
     <<"d", "e", "g", "1">>, <<"%">>}

HuePercents == {0, 25, 100}

AlphaHalf == <<" ", "/", " ", "0", ".", "5">>
HueTails == {Empty, AlphaHalf}

HueVectors ==
    {<<fn, SignedDec(n), u, Space, Pct(p), Space, Pct(q), t, Close>> :
        fn \in {Hsl, Hwb}, n \in HueNumbers, u \in HueUnits \cup BadUnits,
        p \in HuePercents, q \in HuePercents, t \in HueTails}

HueInit ==
    /\ tokens \in HueVectors
    /\ input = Bytes(Concat(tokens))
    /\ result = Pending

HueSpec == HueInit /\ [][Next]_vars

(***************************************************************************)
(* Properties of the hue.                                                  *)
(***************************************************************************)
IsHue ==
    /\ Len(tokens) = 9
    /\ tokens[1] \in {Hsl, Hwb}
    /\ tokens[2] \in {SignedDec(n) : n \in HueNumbers}
    /\ tokens[4] = Space

HueNumber == CHOOSE n \in HueNumbers : SignedDec(n) = tokens[2]

\* The hue values of one turn, for the units in which that is a whole
\* number.
TurnOf(u) ==
    IF u \in NoUnit \cup DegUnits THEN 360
    ELSE IF u \in GradUnits THEN 400
    ELSE 1

\* The input with its hue moved by k turns, and with the hue 0.
HueShifted(k) ==
    [tokens EXCEPT ![2] = SignedDec(HueNumber + k * TurnOf(tokens[3]))]
HueAtZero == [tokens EXCEPT ![2] = <<"0">>]

HueTurns == {-2, -1, 1, 2}

\* const COLOR_EPSILON: f32 = 0.005 / 100.;
COLOR_EPSILON ==
    F32Div(StrToF32(Bytes(<<"0", ".", "0", "0", "5">>)), F32OfInt(100))

\* (lhs - rhs).abs() <= COLOR_EPSILON
ApproxEq(lhs, rhs) ==
    F32Le(F32Sub(lhs, rhs), COLOR_EPSILON) /\ F32Le(F32Sub(rhs, lhs), COLOR_EPSILON)

\* assert_color_approx_eq on two results of from_str
ColorApproxEq(l, r) ==
    /\ l.ok
    /\ r.ok
    /\ ApproxEq(l.color.red, r.color.red)
    /\ ApproxEq(l.color.green, r.color.green)
    /\ ApproxEq(l.color.blue, r.color.blue)
    /\ ApproxEq(l.color.alpha, r.color.alpha)

WholeTurnUnit == tokens[3] \in NoUnit \cup DegUnits \cup GradUnits \cup TurnUnits

HueInTurns(n, u) ==
    IF u \in NoUnit \cup DegUnits THEN F32Div(F32OfInt(n), F32OfInt(360))
    ELSE IF u \in GradUnits THEN F32Div(F32OfInt(n), F32OfInt(400))
    ELSE IF u \in RadUnits THEN F32Div(F32OfInt(n), TwoPi)
    ELSE F32OfInt(n)

\* The percentage at position i of a hue vector, as a fraction.
HuePercent(i) ==
    F32Div(F32OfInt(CHOOSE p \in HuePercents : Pct(p) = tokens[i]), F32OfInt(100))

HueAlpha == IF tokens[8] = AlphaHalf THEN F32Half ELSE F32One

\* The colour of a hue vector whose hue is h turns.
HueColor(h) ==
    IF tokens[1] = Hsl
    THEN SrgbFromHsla(normalize_hue(h), HuePercent(5), HuePercent(7), HueAlpha)
    ELSE SrgbFromHwba(normalize_hue(h), HuePercent(5), HuePercent(7), HueAlpha)

\* C12: a hue is a number with an optional unit attached to it: no unit
\* and deg divide the number by 360, grad by 400, rad by 2 pi, turn
\* leaves it; the unit is matched in any case and as a whole, so a unit
\* cut short (de, gra, ra, tur), a longer one (degg, turnn), a unit after
\* white space and any other identifier fail.
HueUnitsParsed ==
    (Called /\ IsHue) =>
        IF tokens[3] \in HueUnits
        THEN result.ret = OkColor(HueColor(HueInTurns(HueNumber, tokens[3])))
        ELSE ~result.ret.ok

\* hwb(-30GRAD 25% 0% / 0.5) has been parsed as a hue of -30/400 turns.
HueUnitsParsedWitness ==
    /\ Called
    /\ tokens = <<Hwb, SignedDec(-30), <<"G", "R", "A", "D">>, Space, Pct(25),
                  Space, Pct(0), AlphaHalf, Close>>
    /\ result.ret.ok
    /\ result.ret.color =
           SrgbFromHwba(normalize_hue(F32Div(F32OfInt(-30), F32OfInt(400))),
                        F32Div(F32OfInt(25), F32OfInt(100)), F32Zero, F32Half)

(***************************************************************************)
(* Whole inputs (tests.rs, fn named and run_color_test): a colour name in  *)
(* some case, whole or with its last letter dropped, and a colour of any   *)
(* form, between a lead and a trail.  A vector is <<lead, core, trail>>.   *)
(***************************************************************************)
TransparentWord == <<"t", "r", "a", "n", "s", "p", "a", "r", "e", "n", "t">>
CurrentColor == <<"c", "u", "r", "r", "e", "n", "t", "c", "o", "l", "o", "r">>

\* The names of the match arms of parse_named.
NamedWords == {NamedColors[i][1] : i \in DOMAIN NamedColors} \cup {TransparentWord}

\* c.to_ascii_uppercase() of a character
UpperChar(c) == IF b(c) \in 97..122 THEN Printable[b(c) - 63] ELSE c

CaseStyles == {"lower", "upper", "capital", "mixed"}

\* The word w in lower case, in upper case (name.to_uppercase()), with a
\* capital first letter, and with every second letter a capital.
Cased(w, style) ==
    [i \in 1..Len(w) |->
        IF \/ style = "upper"
           \/ (style = "capital" /\ i = 1)
           \/ (style = "mixed" /\ i % 2 = 0)
        THEN UpperChar(w[i]) ELSE w[i]]

\* name.pop()
Popped(w) == SubSeq(w, 1, Len(w) - 1)

CasedKeys == {Cased(w, s) : w \in NamedWords, s \in CaseStyles}
CasedWords == CasedKeys \cup {Popped(w) : w \in CasedKeys}

Tab == <<"TAB">>
LineFeed == <<"LF">>
Comment == <<"/", "*", "*", "/">>
Backslash == <<"BS">>
WhiteSpaces == {Space, Tab, LineFeed, <<"CR">>, <<"FF">>}
Decorations == {Empty, Comment, Backslash} \cup WhiteSpaces

\* A colour of every form (tests.rs, fn basic).
ValidCores ==
    {<<"#", "f", "f", "f">>,
     <<"#", "0", "0", "f", "f", "0", "0", "a", "a">>,
     <<"r", "g", "b", "(", "0", " ", "0", " ", "0", ")">>,
     <<"r", "g", "b", "a", "(", "0", ",", " ", "2", "5", "5", ",", " ", "0", ",", " ", "0", ".", "5", ")">>,
     <<"h", "s", "l", "(", "1", "2", "0", "d", "e", "g", " ", "1", "0", "0", "%", " ", "5", "0", "%", " ", "/", " ", "1", "0", "0", "%", ")">>,
     <<"h", "w", "b", "(", "1", "2", "0", " ", "0", "%", " ", "0", "%", " ", "/", " ", "1", ")">>,
     <<"r", "e", "d">>,
     <<"t", "r", "a", "n", "s", "p", "a", "r", "e", "n", "t">>}

\* A comment or a backslash inside an input.
BrokenCores ==
    {<<"r", "g", "b", "(", "0", "/", "*", "*", "/", "0", " ", "0", ")">>,
     <<"r", "g", "b", "(", "/", "*", "*", "/", "0", " ", "0", " ", "0", ")">>,
     <<"r", "g", "b", "(", "0", " ", "0", " ", "0", "/", "*", "*", "/", ")">>,
     <<"r", "g", "b", "(", "0", " ", "0", " ", "0", " ", "/", " ", "/", "*", "1", ")">>,
     <<"r", "g", "b", "/", "*", "*", "/", "(", "0", " ", "0", " ", "0", ")">>,
     <<"h", "s", "l", "(", "0", " ", "0", "%", " ", "0", "%", " ", "/", "*", "/", " ", "1", ")">>,
     <<"#", "f", "/", "*">>,
     <<"r", "e", "/", "*", "*", "/", "d">>,
     <<"r", "BS", "g", "b", "(", "0", " ", "0", " ", "0", ")">>,
     <<"r", "g", "b", "(", "0", " ", "0", " ", "BS", "3", "0", " ", ")">>,
     <<"r", "e", "BS", "d">>,
     <<"BS", "7", "2", " ", "e", "d">>,
     <<"#", "f", "BS", "6", "6", " ", "f">>,
     <<"h", "w", "b", "(", "0", "BS", " ", "0", "%", " ", "0", "%", ")">>}

CurrentColors == {Cased(CurrentColor, s) : s \in CaseStyles}

WholeVectors ==
    {<<Empty, w, t>> : w \in CasedWords, t \in {Empty, <<"a">>}}
    \cup {<<l, c, t>> :
            l \in Decorations,
            c \in ValidCores \cup CurrentColors \cup {Empty, <<"R", "e", "D">>},
            t \in Decorations}
    \cup {<<Empty, c, Empty>> : c \in BrokenCores}

WholeInit ==
    /\ tokens \in WholeVectors
    /\ input = Bytes(Concat(tokens))
    /\ result = Pending

WholeSpec == WholeInit /\ [][Next]_vars

(***************************************************************************)
(* Properties of whole inputs.                                             *)
(***************************************************************************)
IsWhole == Len(tokens) = 3

\* The input is a word: a name, or a name without its last letter, with
\* or without an a after it.
IsWord == IsWhole /\ tokens[1] = Empty /\ tokens[2] \in CasedWords /\ tokens[3] \in {Empty, <<"a">>}

\* c.to_ascii_lowercase() of a character, and a word in lower case.
LowerChar(c) == IF b(c) \in 65..90 THEN Printable[b(c) + 1] ELSE c
Lowered(w) == [i \in 1..Len(w) |-> LowerChar(w[i])]

\* The row of the table whose name is the lower-case word w.
KeyRow(w) == NamedColors[CHOOSE i \in DOMAIN NamedColors : NamedColors[i][1] = w]

\* RGB / 255 with alpha 1, and transparent as (0, 0, 0, 0).
KeyColor(w) ==
    IF w = TransparentWord
    THEN Srgb(F32Zero, F32Zero, F32Zero, F32Zero)
    ELSE Srgb(F32Div(F32OfInt(KeyRow(w)[2]), F32OfInt(255)),
              F32Div(F32OfInt(KeyRow(w)[3]), F32OfInt(255)),
              F32Div(F32OfInt(KeyRow(w)[4]), F32OfInt(255)),
              F32One)

\* C13: a named colour is looked up without regard to case and the whole
\* input must be the name: every name of the table, in any case, yields
\* its RGB / 255 with alpha 1 (transparent yields 0, 0, 0, 0); the name
\* without its last letter, the name with a letter after it, and any
\* other word fail.
NamedLookup ==
    (Called /\ IsWord) =>
        IF Lowered(tokens[2] \o tokens[3]) \in NamedWords
        THEN result.ret = OkColor(KeyColor(Lowered(tokens[2] \o tokens[3])))
        ELSE ~result.ret.ok

\* DARKSLATEGRAY has been looked up: (47, 79, 79) / 255 and alpha 1.
NamedLookupWitness ==
    /\ Called
    /\ tokens = <<Empty, Cased(<<"d", "a", "r", "k", "s", "l", "a", "t", "e",
                                 "g", "r", "a", "y">>, "upper"), Empty>>
    /\ result.ret.ok
    /\ result.ret.color = from_rgb8(47, 79, 79)

\* The characters of the whole input.
Chars == Concat(tokens)

\* input.contains("/*")
HasComment(s) == \E i \in 1..(Len(s) - 1) : s[i] = "/" /\ s[i + 1] = "*"

\* input.contains("\\")
HasBackslash(s) == \E i \in 1..Len(s) : s[i] = "BS"

\* C16: the parse fails on the empty input, on white space before or
\* after a colour, on any input that contains a comment opener or a
\* backslash, and on currentcolor in any case; the colours themselves,
\* with nothing around them, are accepted.
WholeInputOnly ==
    (Called /\ IsWhole) =>
        /\ Chars = <<>> => ~result.ret.ok
        /\ (tokens[1] \in WhiteSpaces \/ tokens[3] \in WhiteSpaces) => ~result.ret.ok
        /\ HasComment(Chars) => ~result.ret.ok
        /\ HasBackslash(Chars) => ~result.ret.ok
        /\ Lowered(Chars) = CurrentColor => ~result.ret.ok
        /\ (tokens[1] = Empty /\ tokens[3] = Empty /\ tokens[2] \in ValidCores) =>
               result.ret.ok

\* " #fff" has been rejected: a space before a hex colour.
WholeInputOnlyWitness ==
    /\ Called
    /\ tokens = <<Space, <<"#", "f", "f", "f">>, Empty>>
    /\ ~result.ret.ok

(***************************************************************************)
(* Numeral inputs (tests.rs, fn numeric and fn overflow): rgb(, hsl( and   *)
(* hwb( in which one of the three components or the alpha is a numeral     *)
(* under test and the others are 10, 20, 30 and 0.5.  A vector is          *)
(* <<function, c1, s1, c2, s2, c3, s3, alpha, close>>.                     *)
(***************************************************************************)
MaxNines == 40

\* "9".repeat(MaxNines)
Nines == [i \in 1..MaxNines |-> "9"]

\* Numerals of every shape of the <number> grammar.
PlainNumerals ==
    {<<"6">>, <<"+", "6">>, <<"-", "6">>, <<"6", ".", "5">>, <<".", "5">>,
     <<"-", ".", "5">>, <<"+", ".", "5">>, <<"6", "e", "0">>,
     <<"6", "E", "0">>, <<"6", "e", "+", "0">>, <<"6", "e", "-", "0">>,
     <<"6", ".", "5", "e", "1">>, <<".", "5", "e", "1">>, <<"0", "0", "7">>,
     <<"0", ".", "5", "0">>, <<"1", "e", "0">>,
     <<"-", "6", ".", "5", "E", "-", "1">>}

\* A dot without digits after it, an exponent without digits, a sign
\* alone, two signs, two dots, and the names that str::parse::<f32>
\* would take (tests.rs, fn numeric).
MalformedNumerals ==
    {<<"6", ".">>, <<"6", ".", "e", "0">>, <<"6", "e">>, <<"6", "e", "+">>,
     <<"6", "e", "-">>, <<"6", "E">>, <<"6", "E", "+">>,
     <<"6", "e", "+", "0", ".">>, <<".">>, <<"+">>, <<"-">>, <<>>,
     <<"e", "5">>, <<".", "e", "5">>, <<"+", "-", "6">>, <<"-", "-", "6">>,
     <<"+", "+", "6">>, <<"6", "e", "+", "-", "1">>,
     <<"6", "e", "1", ".", "5">>, <<"1", ".", "5", ".", "5">>,
     <<"i", "n", "f">>, <<"I", "N", "F">>, <<"I", "n", "f">>,
     <<"i", "n", "f", "i", "n", "i", "t", "y">>,
     <<"I", "N", "F", "I", "N", "I", "T", "Y">>,
     <<"I", "n", "f", "i", "n", "i", "t", "y">>, <<"n", "a", "n">>,
     <<"N", "A", "N">>, <<"N", "a", "N">>, <<"+", "i", "n", "f">>,
     <<"-", "i", "n", "f">>, <<"1", "e">>, <<"0", "x", "1", "F">>,
     <<"1", "_", "0", "0", "0">>}

\* Numerals below 0 (tests.rs, fn overflow).
BelowZero ==
    {<<"-", "2", "1", "4", "7", "4", "8", "3", "6", "4", "9">>,
     <<"-", "1", "8", "4", "4", "6", "7", "4", "4", "0", "7", "3", "7", "0", "9", "5", "5", "1", "6", "1", "9">>,
     <<"-", "1">>, <<"-", "0", ".", "0", "0", "1">>,
     <<"-", "1", "e", "+", "9", "9", "9">>, <<"-", "1", "e", "3", "9">>}

\* Numerals above 255, and MaxNines nines.
AboveRange ==
    {<<"4", "2", "9", "4", "9", "6", "7", "2", "9", "8">>,
     <<"1", "e", "+", "9", "9", "9">>, <<"2", "5", "6">>,
     <<"2", "5", "5", ".", "5">>, <<"1", "e", "3">>, <<"1", "e", "3", "9">>,
     <<"3", "4", "0", "2", "8", "2", "3", "5", "6", "7", "7", "9", "7", "3", "3", "6", "6", "1", "6", "3", "7", "5", "3", "9", "3", "9", "5", "4", "5", "8", "1", "4", "2", "5", "6", "8", "4", "4", "8">>}
    \cup {Nines}

\* Numerals above 100 and above 1.
Above100 == AboveRange \cup {<<"1", "0", "1">>}
Above1 == Above100 \cup {<<"1", ".", "5">>}

Numerals == PlainNumerals \cup MalformedNumerals \cup BelowZero \cup Above1

FixedNumerals == <<<<"1", "0">>, <<"2", "0">>, <<"3", "0">>, <<"0", ".", "5">>>>

\* <<function, separator, alpha separator, which components are
\* percentages>>
NumeralForms ==
    {<<Rgb, Space, Slash, <<FALSE, FALSE, FALSE>>>>,
     <<Rgba, Comma, Comma, <<FALSE, FALSE, FALSE>>>>,
     <<Rgb, Space, Slash, <<TRUE, TRUE, TRUE>>>>,
     <<Rgb, Comma, Comma, <<TRUE, TRUE, TRUE>>>>,
     <<Hsl, Space, Slash, <<FALSE, TRUE, TRUE>>>>,
     <<Hsla, Comma, Comma, <<FALSE, TRUE, TRUE>>>>,
     <<Hwb, Space, Slash, <<FALSE, TRUE, TRUE>>>>}

\* The numeral at position i, which is t at position pos, as a number or
\* as a percentage.
NumeralAt(i, pos, t, percent) ==
    (IF i = pos THEN t ELSE FixedNumerals[i]) \o (IF percent THEN <<"%">> ELSE <<>>)

NumeralVector(f, pos, t, pa) ==
    <<f[1], NumeralAt(1, pos, t, f[4][1]), f[2], NumeralAt(2, pos, t, f[4][2]), f[2],
      NumeralAt(3, pos, t, f[4][3]), f[3], NumeralAt(4, pos, t, pa), Close>>

NumeralVectors ==
    {NumeralVector(f, pos, t, pa) :
        f \in NumeralForms, pos \in 1..4, t \in Numerals, pa \in BOOLEAN}

NumeralInit ==
    /\ tokens \in NumeralVectors
    /\ input = Bytes(Concat(tokens))
    /\ result = Pending

NumeralSpec == NumeralInit /\ [][Next]_vars

(***************************************************************************)
(* Properties of numerals.                                                 *)
(***************************************************************************)
IsNumeral == Len(tokens) = 9 /\ tokens[1] \in {Rgb, Rgba, Hsl, Hsla, Hwb}

\* The token at position i of 1..4, whether it is a percentage, and its
\* numeral.
Tok(i) == tokens[2 * i]
IsPercent(t) == t # <<>> /\ t[Len(t)] = "%"
NumeralOf(t) == IF IsPercent(t) THEN SubSeq(t, 1, Len(t) - 1) ELSE t

DigitChars == {"0", "1", "2", "3", "4", "5", "6", "7", "8", "9"}

\* One or more digits.
IsDigits(s) == s # <<>> /\ \A i \in 1..Len(s) : s[i] \in DigitChars

\* s without one leading sign.
Unsigned(s) == IF s # <<>> /\ s[1] \in {"+", "-"} THEN Tail(s) ELSE s

\* Digits, optionally followed by a dot and digits; or a dot and digits.
IsMantissa(s) ==
    \/ IsDigits(s)
    \/ \E k \in 1..Len(s) :
          /\ s[k] = "."
          /\ (k = 1 \/ IsDigits(SubSeq(s, 1, k - 1)))
          /\ IsDigits(SubSeq(s, k + 1, Len(s)))

\* A mantissa, optionally followed by e or E, an optional sign and digits.
IsUnsignedNumber(s) ==
    \/ IsMantissa(s)
    \/ \E k \in 1..Len(s) :
          /\ s[k] \in {"e", "E"}
          /\ IsMantissa(SubSeq(s, 1, k - 1))
          /\ IsDigits(Unsigned(SubSeq(s, k + 1, Len(s))))

\* The <number> grammar.
IsNumber(s) == IsUnsignedNumber(Unsigned(s))

IsNumeralRgb == IsNumeral /\ tokens[1] \in {Rgb, Rgba}

\* The i-th of red, green, blue, alpha of a colour.
Component(color, i) ==
    IF i = 1 THEN color.red
    ELSE IF i = 2 THEN color.green
    ELSE IF i = 3 THEN color.blue
    ELSE color.alpha

\* C14: out-of-range values saturate and are no error: in rgb()/rgba() a
\* channel below 0 yields 0, a number above 255 or a percentage above 100%
\* yields 1, an alpha below 0 yields 0 and an alpha above 1 or 100% yields
\* 1, however large the numeral and however many digits it has.
Saturates ==
    (Called /\ IsNumeralRgb /\ \A i \in 1..4 : IsNumber(NumeralOf(Tok(i)))) =>
        /\ result.ret.ok
        /\ \A i \in 1..4 :
              /\ NumeralOf(Tok(i)) \in BelowZero =>
                     Component(result.ret.color, i) = F32Zero
              /\ NumeralOf(Tok(i)) \in AboveRange =>
                     Component(result.ret.color, i) = F32One
              /\ (IsPercent(Tok(i)) /\ NumeralOf(Tok(i)) \in Above100) =>
                     Component(result.ret.color, i) = F32One
              /\ (i = 4 /\ ~IsPercent(Tok(i)) /\ NumeralOf(Tok(i)) \in Above1) =>
                     Component(result.ret.color, i) = F32One

\* rgba(10,20,-18446744073709551619,0.5) has been parsed: blue is 0.
SaturatesWitness ==
    /\ Called
    /\ tokens = <<Rgba, <<"1", "0">>, Comma, <<"2", "0">>, Comma,
                  <<"-", "1", "8", "4", "4", "6", "7", "4", "4", "0", "7", "3",
                    "7", "0", "9", "5", "5", "1", "6", "1", "9">>,
                  Comma, <<"0", ".", "5">>, Close>>
    /\ result.ret.ok
    /\ result.ret.color.blue = F32Zero
    /\ result.ret.color.alpha = F32Half

\* C17: a component is taken as a numeral only if it matches the <number>
\* grammar; inf, infinity and nan in any case, a dot without digits after
\* it (6., 6.e0, 100.%) and an exponent without digits (6e, 6e+, 6e-) in
\* any channel or alpha position make the parse fail.
NumeralGrammar ==
    (Called /\ IsNumeral) =>
        (result.ret.ok <=> \A i \in 1..4 : IsNumber(NumeralOf(Tok(i))))

\* rgb(10 20 30/6.e0%) has been rejected: a dot without digits after it.
NumeralGrammarWitness ==
    /\ Called
    /\ tokens = <<Rgb, <<"1", "0">>, Space, <<"2", "0">>, Space, <<"3", "0">>,
                  Slash, <<"6", ".", "e", "0", "%">>, Close>>
    /\ ~result.ret.ok

(***************************************************************************)
(* Colours of every production: hex digits, names, rgb( with numerals in   *)
(* and out of range, and hsl( and hwb( over a grid of hues and             *)
(* percentages.                                                            *)
(***************************************************************************)
\* Hues in the six sectors, at and beyond the ends of a turn, too small
\* and too large for an f32 fraction.
GridHues ==
    {<<"0">>, <<"5", "9">>, <<"6", "1">>, <<"1", "2", "0">>, <<"2", "4", "1">>,
     <<"3", "5", "9", ".", "9", "9", "9", "9", "9">>, <<"-", "1">>,
     <<"-", "1", "e", "-", "9">>, <<"1", "e", "3", "9">>,
     <<".", "7", "t", "u", "r", "n">>}

GridSaturations == {10 * k : k \in 0..10} \cup {150}
GridLightnesses == {5 * k : k \in 0..20}

GridVectors ==
    {<<fn, h, Space, Pct(p), Space, Pct(q), Empty, Empty, Close>> :
        fn \in {Hsl, Hwb}, h \in GridHues, p \in GridSaturations,
        q \in GridLightnesses}

ColorVectors ==
    HexLong \cup HexShort
    \cup {<<Empty, w, Empty>> : w \in NamedWords}
    \cup {NumeralVector(f, pos, t, pa) :
            f \in NumeralForms, pos \in 1..4,
            t \in PlainNumerals \cup BelowZero \cup Above1, pa \in BOOLEAN}
    \cup GridVectors

ColorInit ==
    /\ tokens \in ColorVectors
    /\ input = Bytes(Concat(tokens))
    /\ result = Pending

ColorSpec == ColorInit /\ [][Next]_vars

(***************************************************************************)
(* Properties of the colour.                                               *)
(***************************************************************************)
\* 0 <= x <= 1
InUnit(x) == F32Le(F32Zero, x) /\ F32Le(x, F32One)

\* C15: every colour that a parse returns, from whichever production, has
\* red, green, blue and alpha within [0, 1].
ComponentsInUnit ==
    (Called /\ result.ret.ok) =>
        /\ InUnit(result.ret.color.red)
        /\ InUnit(result.ret.color.green)
        /\ InUnit(result.ret.color.blue)
        /\ InUnit(result.ret.color.alpha)

\* hsl(241 150% 95%) has been parsed: the saturation is clamped to 1 and
\* the channels are within [0, 1], blue being 1.
ComponentsInUnitWitness ==
    /\ Called
    /\ tokens = <<Hsl, <<"2", "4", "1">>, Space, Pct(150), Space, Pct(95),
                  Empty, Empty, Close>>
    /\ result.ret.ok
    /\ result.ret.color.blue = F32One
    /\ F32Lt(F32Zero, result.ret.color.red)
    /\ F32Lt(result.ret.color.red, F32One)

(***************************************************************************)
(* Functional forms (tests.rs, fn rgb and fn hsl): every function name     *)
(* with three components, the separators between them and an ending.  A    *)
(* vector is <<function, c1, s1, c2, s2, c3, s3, alpha, close>>.           *)
(***************************************************************************)
Hwba == <<"h", "w", "b", "a", "(">>

FormNames == {Rgb, Rgba, Hsl, Hsla, Hwb, Hwba}

Num120 == <<"1", "2", "0">>
Deg90 == <<"9", "0", "d", "e", "g">>
Pct10 == <<"1", "0", "%">>
Num40 == <<"4", "0">>
Pct40 == <<"4", "0", "%">>
Num60 == <<"6", "0">>
Pct60 == <<"6", "0", "%">>

FormFirsts == {Num120, NoneTok, Deg90, Pct10}
FormSeconds == {Num40, Pct40, NoneTok}
FormThirds == {Num60, Pct60, NoneTok, Empty}

CommaSpace == <<",", " ">>
SpacedComma == <<" ", ",", " ">>
SpacedSlash == <<" ", "/", " ">>

\* <<s1, s2>>: white space, commas, and one of each.
FormSeps ==
    {<<Space, Space>>, <<Comma, Comma>>, <<CommaSpace, CommaSpace>>,
     <<Space, Comma>>, <<Comma, Space>>}

Quarter == <<"0", ".", "2", "5">>
FormAlphas ==
    {Quarter, <<"5", "0", "%">>, <<"-", "1">>, <<"1", "5", "0", "%">>, NoneTok}

\* <<s3, alpha, close>>
NoAlphaEndings == {<<Empty, Empty, Close>>, <<Space, Empty, Close>>}
SlashEndings ==
    {<<Slash, a, Close>> : a \in FormAlphas} \cup {<<SpacedSlash, Quarter, Close>>}
CommaEndings ==
    {<<Comma, a, Close>> : a \in FormAlphas} \cup {<<SpacedComma, <<"0">>, Close>>}

\* A separator and no alpha, no ")", an alpha and no ")", and bytes after
\* the ")".
OpenEndings ==
    {<<Comma, Empty, Close>>, <<Slash, Empty, Close>>,
     <<Empty, Empty, Empty>>, <<Slash, Quarter, Empty>>,
     <<Empty, Empty, <<")", " ">>>>, <<Empty, Empty, <<")", ")">>>>,
     <<Slash, Quarter, <<")", "x">>>>}

FormEndings == NoAlphaEndings \cup SlashEndings \cup CommaEndings \cup OpenEndings

\* Where the third component is missing there is no alpha either, so
\* that the input has two components.
FormVectors ==
    {v \in {<<fn, c1, s[1], c2, s[2], c3>> \o e :
                fn \in FormNames, c1 \in FormFirsts, s \in FormSeps,
                c2 \in FormSeconds, c3 \in FormThirds, e \in FormEndings} :
        v[6] = Empty => v[8] = Empty}

FormInit ==
    /\ tokens \in FormVectors
    /\ input = Bytes(Concat(tokens))
    /\ result = Pending

FormSpec == FormInit /\ [][Next]_vars

(***************************************************************************)
(* Properties of the functional forms.                                     *)
(***************************************************************************)
IsForm == Len(tokens) = 9 /\ tokens[1] \in FormNames

IsHwb == IsForm /\ tokens[1] = Hwb

\* Three components with commas between them, as rgb()/rgba() and
\* hsl()/hsla() take them.
LegacyComponents ==
    /\ Sep(1) \in {Comma, CommaSpace}
    /\ Sep(2) \in {Comma, CommaSpace}
    /\ \/ /\ tokens[1] \in {Rgb, Rgba}
          /\ \/ <<Comp(1), Comp(2), Comp(3)>> = <<Num120, Num40, Num60>>
             \/ <<Comp(1), Comp(2), Comp(3)>> = <<Pct10, Pct40, Pct60>>
       \/ /\ tokens[1] \in {Hsl, Hsla}
          /\ Comp(1) \in {Num120, Deg90}
          /\ <<Comp(2), Comp(3)>> = <<Pct40, Pct60>>

\* Three components with white space between them.
ModernComponents ==
    /\ Sep(1) = Space
    /\ Sep(2) = Space
    /\ Comp(3) # Empty
    /\ \/ tokens[1] \in {Rgb, Rgba} /\ Comp(1) \in {Num120, Pct10, NoneTok}
       \/ tokens[1] \in {Hsl, Hsla, Hwb} /\ Comp(1) \in {Num120, Deg90, NoneTok}

\* The value of an alpha token: p% is p / 100, none is 0, and the value
\* is clamped to [0, 1].
AlphaValue(a) ==
    IF a = Quarter THEN F32Div(F32One, F32Four)
    ELSE IF a = <<"5", "0", "%">> THEN F32Half
    ELSE IF a = <<"1", "5", "0", "%">> THEN F32One
    ELSE F32Zero

\* C18: in rgb(), hsl() and hwb() an omitted alpha is 1 and a given alpha
\* is a number or a percentage clamped to [0, 1]; "/" introduces the alpha
\* only after comma-less components and "," only after comma-separated
\* ones; none as alpha is 0 after "/" and fails after ",".
AlphaHandled ==
    (Called /\ IsForm) =>
        /\ ((LegacyComponents \/ ModernComponents) /\ Ending \in NoAlphaEndings) =>
               (result.ret.ok /\ result.ret.color.alpha = F32One)
        /\ (ModernComponents /\ Ending \in SlashEndings) =>
               (result.ret.ok /\ result.ret.color.alpha = AlphaValue(tokens[8]))
        /\ (LegacyComponents /\ Ending \in CommaEndings /\ tokens[8] # NoneTok) =>
               (result.ret.ok /\ result.ret.color.alpha = AlphaValue(tokens[8]))
        /\ (LegacyComponents /\ Ending \in CommaEndings /\ tokens[8] = NoneTok) =>
               ~result.ret.ok
        /\ (LegacyComponents /\ Ending \in SlashEndings) => ~result.ret.ok
        /\ (ModernComponents /\ Ending \in CommaEndings) => ~result.ret.ok

\* hsl(120 40% 60% , 0) has been rejected: a comma before the alpha of
\* comma-less components.
AlphaHandledWitness ==
    /\ Called
    /\ tokens = <<Hsl, Num120, Space, Pct40, Space, Pct60, SpacedComma, <<"0">>,
                  Close>>
    /\ ~result.ret.ok

\* C19: hwb() takes only the comma-less form: a hue or none, a whiteness
\* and a blackness that are each a number, a percentage or none, an
\* optional "/" with an alpha value or none, and ")"; a comma anywhere
\* fails, and hwba( is no function.
HwbCommaLess ==
    /\ (Called /\ IsHwb) =>
           (result.ret.ok <=>
               /\ ModernComponents
               /\ Ending \in NoAlphaEndings \cup SlashEndings)
    /\ (Called /\ IsForm /\ tokens[1] = Hwba) => ~result.ret.ok

\* hwb(none 40 none/none) has been parsed, with alpha 0.
HwbCommaLessWitness ==
    /\ Called
    /\ tokens = <<Hwb, NoneTok, Space, Num40, Space, NoneTok, Slash, NoneTok, Close>>
    /\ result.ret.ok
    /\ result.ret.color.alpha = F32Zero

\* C20: a functional form is accepted only if, after the last component
\* and any white space, the rest of the input is exactly ")": a missing
\* ")", a separator with nothing after it, a missing component and bytes
\* after ")" fail.
ClosedExactly ==
    (Called /\ IsForm /\ result.ret.ok) =>
        /\ tokens[9] = Close
        /\ Comp(3) # Empty
        /\ tokens[7] \in {Empty, Space} <=> tokens[8] = Empty

\* hsl(120,40%,60%,) has been rejected: a comma with nothing after it.
ClosedExactlyWitness ==
    /\ Called
    /\ tokens = <<Hsl, Num120, Comma, Pct40, Comma, Pct60, Comma, Empty, Close>>
    /\ ~result.ret.ok

(***************************************************************************)
(* Prefixes (tests.rs, fn hsl, 441-457): a word, what follows it, and the  *)
(* arguments.  A vector is <<word, opening, arguments>>.                   *)
(***************************************************************************)
\* The five function names in lower, upper and mixed case.
FunctionNames ==
    {<<"r", "g", "b">>, <<"R", "G", "B">>, <<"r", "G", "b">>,
     <<"r", "g", "b", "a">>, <<"R", "G", "B", "A">>, <<"R", "g", "b", "A">>,
     <<"h", "s", "l">>, <<"H", "S", "L">>, <<"h", "S", "l">>,
     <<"h", "s", "l", "a">>, <<"H", "S", "L", "A">>, <<"H", "s", "L", "a">>,
     <<"h", "w", "b">>, <<"H", "W", "B">>, <<"h", "W", "b">>}

\* Words that are no function name: some are colour names.
OtherNames ==
    {<<"h", "w", "b", "a">>, <<"r", "g">>, <<"r", "g", "b", "x">>,
     <<"h", "s">>, <<"h", "s", "v">>, <<"l", "a", "b">>,
     <<"c", "o", "l", "o", "r">>, <<"r", "e", "d">>, <<"R", "E", "D">>,
     <<"b", "l", "u", "e">>,
     <<"t", "r", "a", "n", "s", "p", "a", "r", "e", "n", "t">>, <<>>}

\* Arguments that some production takes, and some that none takes.
Arguments ==
    {<<"0", " ", "0", " ", "0", ")">>,
     <<"0", ",", " ", "1", "2", "8", ",", " ", "2", "5", "5", ")">>,
     <<"1", "0", "%", " ", "2", "0", "%", " ", "3", "0", "%", " ", "/", " ", "5", "0", "%", ")">>,
     <<"0", ",", "0", "%", ",", "0", "%", ",", "0", ".", "5", ")">>,
     <<"1", "2", "0", "d", "e", "g", " ", "1", "0", "0", "%", " ", "5", "0", "%", ")">>,
     <<"1", "2", "0", " ", "1", "0", "0", "%", " ", "5", "0", "%", ")">>,
     <<"n", "o", "n", "e", " ", "n", "o", "n", "e", " ", "n", "o", "n", "e", ")">>,
     <<" ", "0", " ", "0", "%", " ", "0", "%", " ", "/", " ", "0", " ", ")">>,
     <<"0", " ", "0", ")">>, <<")">>, <<"0", " ", "0", " ", "0">>,
     <<"#", "f", "f", "f">>, <<"f", "f", "f">>,
     <<"0", "0", "f", "f", "0", "0", "8", "0">>, <<>>}

Open == <<"(">>
Openings == {Open, <<" ", "(">>, <<"(", " ">>, Empty}

PrefixVectors ==
    {<<w, o, a>> : w \in FunctionNames \cup OtherNames \cup {Hash}, o \in Openings,
                   a \in Arguments}

PrefixInit ==
    /\ tokens \in PrefixVectors
    /\ input = Bytes(Concat(tokens))
    /\ result = Pending

PrefixSpec == PrefixInit /\ [][Next]_vars

(***************************************************************************)
(* Properties of the dispatcher.                                           *)
(***************************************************************************)
IsPrefixed == Len(tokens) = 3 /\ tokens[2] \in Openings

FnRgb == <<"r", "g", "b">>
FnRgba == <<"r", "g", "b", "a">>
FnHsl == <<"h", "s", "l">>
FnHsla == <<"h", "s", "l", "a">>
FnHwb == <<"h", "w", "b">>

\* The input starts with "#".
Hashed == Chars # <<>> /\ Chars[1] = "#"

\* The input starts with the name w in some case and "(" right after it.
Calls(w) ==
    /\ Len(Chars) > Len(w)
    /\ Lowered(SubSeq(Chars, 1, Len(w))) = w
    /\ Chars[Len(w) + 1] = "("

\* The characters after the first n.
After(n) == SubSeq(Chars, n + 1, Len(Chars))

\* C21: the production is chosen by the prefix: "#", then rgb(, rgba(,
\* hsl(, hsla(, hwb( in any case with the "(" right after the name, else
\* the lookup of the whole input as a name.  rgb( and rgba( give the same
\* result for the same arguments, as do hsl( and hsla(.  The result of
\* the chosen parser is the result of the parse, a failure included.
Dispatched ==
    (Called /\ IsPrefixed) =>
        /\ Hashed => result.ret = parse_hex(Bytes(After(1)))
        /\ Calls(FnRgb) => result.ret = parse_rgb(skip_ws(Bytes(After(4))))
        /\ Calls(FnRgba) =>
               /\ result.ret = parse_rgb(skip_ws(Bytes(After(5))))
               /\ result.ret = from_str(Bytes(FnRgb \o After(4)))
        /\ Calls(FnHsl) => result.ret = parse_hsl(skip_ws(Bytes(After(4))))
        /\ Calls(FnHsla) =>
               /\ result.ret = parse_hsl(skip_ws(Bytes(After(5))))
               /\ result.ret = from_str(Bytes(FnHsl \o After(4)))
        /\ Calls(FnHwb) => result.ret = parse_hwb(skip_ws(Bytes(After(4))))
        /\ (~Hashed /\ ~\E w \in {FnRgb, FnRgba, FnHsl, FnHsla, FnHwb} : Calls(w)) =>
               result.ret = parse_named(input)
        /\ (tokens[1] \in FunctionNames /\ tokens[2] = <<" ", "(">>) => ~result.ret.ok

\* HsLa(0,0%,0%,0.5) has been parsed by the parser of hsl(.
DispatchedWitness ==
    /\ Called
    /\ tokens = <<<<"H", "s", "L", "a">>, Open,
                  <<"0", ",", "0", "%", ",", "0", "%", ",", "0", ".", "5", ")">>>>
    /\ result.ret.ok
    /\ result.ret.color.alpha = F32Half
    /\ result.ret = from_str(Bytes(FnHsl \o After(4)))

(***************************************************************************)
(* White space inside the parentheses (tests.rs, fn hsl, 486-521, and fn   *)
(* numeric, 588-596).  A template is the pieces of a functional colour,    *)
(* the kind of the gap after each piece but the last ("opt": between two   *)
(* tokens that delimit themselves, "req": between two tokens that would    *)
(* run together, "unit": between a number and its % or unit), and the same *)
(* colour in another spelling.  A vector is piece, gap, piece, ..., piece. *)
(***************************************************************************)
WsTemplates ==
    {\* hsl(120deg 40% 60% / 0.5)
     [pieces |-> <<<<"h", "s", "l", "(">>, <<"1", "2", "0">>,
                     <<"d", "e", "g">>, <<"4", "0">>, <<"%">>, <<"6", "0">>,
                     <<"%">>, <<"/">>, <<"0", ".", "5">>, <<")">>>>,
      gaps |-> <<"opt", "unit", "req", "unit", "opt", "unit", "opt", "opt", "opt">>,
      plain |-> <<"h", "s", "l", "(", "1", "2", "0", " ", "4", "0", "%", " ", "6", "0", "%", " ", "/", " ", "0", ".", "5", ")">>],
     \* hsl(0+0%+0%/+0%), tests.rs 495
     [pieces |-> <<<<"h", "s", "l", "(">>, <<"0">>, <<"+", "0", "%">>,
                     <<"+", "0", "%">>, <<"/">>, <<"+", "0", "%">>, <<")">>>>,
      gaps |-> <<"opt", "opt", "opt", "opt", "opt", "opt">>,
      plain |-> <<"h", "s", "l", "(", "0", " ", "0", "%", " ", "0", "%", " ", "/", " ", "0", ")">>],
     \* rgb(10,20,30,0.5)
     [pieces |-> <<<<"r", "g", "b", "(">>, <<"1", "0">>, <<",">>,
                     <<"2", "0">>, <<",">>, <<"3", "0">>, <<",">>,
                     <<"0", ".", "5">>, <<")">>>>,
      gaps |-> <<"opt", "opt", "opt", "opt", "opt", "opt", "opt", "opt">>,
      plain |-> <<"r", "g", "b", "a", "(", "1", "0", " ", "2", "0", " ", "3", "0", " ", "/", " ", "5", "0", "%", ")">>],
     \* hwb(90 10% 20%)
     [pieces |-> <<<<"h", "w", "b", "(">>, <<"9", "0">>, <<"1", "0">>,
                     <<"%">>, <<"2", "0">>, <<"%">>, <<")">>>>,
      gaps |-> <<"opt", "req", "unit", "opt", "unit", "opt">>,
      plain |-> <<"h", "w", "b", "(", "9", "0", "d", "e", "g", " ", "1", "0", "%", " ", "2", "0", "%", " ", "/", " ", "1", ")">>],
     \* rgb(6e+0.36+216/100%), tests.rs 590
     [pieces |-> <<<<"r", "g", "b", "(">>, <<"6", "e", "+", "0">>,
                     <<".", "3", "6">>, <<"+", "2", "1", "6">>, <<"/">>,
                     <<"1", "0", "0", "%">>, <<")">>>>,
      gaps |-> <<"opt", "opt", "opt", "opt", "opt", "opt">>,
      plain |-> <<"r", "g", "b", "(", "6", " ", "0", ".", "3", "6", " ", "2", "1", "6", " ", "/", " ", "1", ")">>],
     \* hsla(0.5turn,40%,60%,50%)
     [pieces |-> <<<<"h", "s", "l", "a", "(">>, <<"0", ".", "5">>,
                     <<"t", "u", "r", "n">>, <<",">>, <<"4", "0", "%">>,
                     <<",">>, <<"6", "0", "%">>, <<",">>, <<"5", "0">>,
                     <<"%">>, <<")">>>>,
      gaps |-> <<"opt", "unit", "opt", "opt", "opt", "opt", "opt", "opt", "unit", "opt">>,
      plain |-> <<"h", "s", "l", "(", "1", "8", "0", "d", "e", "g", " ", "4", "0", "%", " ", "6", "0", "%", " ", "/", " ", "0", ".", "5", ")">>]}

\* What stands in a gap: nothing, a run of white space, or other bytes.
WsRuns ==
    {Empty, <<" ">>, <<"TAB">>, <<"LF">>, <<"CR">>, <<"FF">>, <<" ", "TAB">>,
     <<"LF", "CR", "FF", " ">>}
OtherRuns ==
    {<<"NUL">>, <<"VT">>, <<"DEL">>, <<"x80">>, <<"xFF">>, <<" ", "NUL", " ">>}
GapRuns == WsRuns \cup OtherRuns

\* The gap a template is written with.
DefaultGap(kind) == IF kind = "req" THEN <<" ">> ELSE Empty

\* The pieces of t with the gaps g between them.
Interleave(t, g) ==
    [i \in 1..(2 * Len(t.pieces) - 1) |->
        IF i % 2 = 1 THEN t.pieces[(i + 1) \div 2] ELSE g[i \div 2]]

\* One gap filled with a run, or every gap between tokens with the same run.
WsVectors ==
    {Interleave(t, [j \in 1..Len(t.gaps) |-> IF j = i THEN r ELSE DefaultGap(t.gaps[j])]) :
        t \in WsTemplates, i \in 1..10, r \in GapRuns}
    \cup {Interleave(t, [j \in 1..Len(t.gaps) |-> IF t.gaps[j] = "unit" THEN Empty ELSE r]) :
        t \in WsTemplates, r \in GapRuns \ {Empty}}

WsInit ==
    /\ tokens \in WsVectors
    /\ input = Bytes(Concat(tokens))
    /\ result = Pending

WsSpec == WsInit /\ [][Next]_vars

(***************************************************************************)
(* Properties of white space.                                              *)
(***************************************************************************)
PiecesOf(ts) == [i \in 1..((Len(ts) + 1) \div 2) |-> ts[2 * i - 1]]

IsSpaced ==
    \E t \in WsTemplates :
        Len(tokens) = 2 * Len(t.pieces) - 1 /\ PiecesOf(tokens) = t.pieces

WsTemplate == CHOOSE t \in WsTemplates : PiecesOf(tokens) = t.pieces

\* A run of space, tab, LF, CR and form feed, the empty run included.
IsWsRun(g) == \A i \in 1..Len(g) : g[i] \in {" ", "TAB", "LF", "CR", "FF"}

GapSkipped(kind, g) ==
    /\ IsWsRun(g)
    /\ kind = "req" => g # Empty
    /\ kind = "unit" => g = Empty

\* C22: a functional colour is accepted exactly when every gap between two
\* tokens holds a run of space, tab, LF, CR and form feed (empty where the
\* next token delimits itself) and no gap separates a number from its % or
\* unit; the colour is then that of the plain spelling.  Any other byte in
\* a gap, NUL included, fails the parse.
WhiteSpaceSkipped ==
    (Called /\ IsSpaced) =>
        IF \A j \in 1..Len(WsTemplate.gaps) : GapSkipped(WsTemplate.gaps[j], tokens[2 * j])
        THEN result.ret.ok /\ result.ret = from_str(Bytes(WsTemplate.plain))
        ELSE ~result.ret.ok

\* hsl(0+0%+0%/+0%) has been accepted, and so has rgb(6e+0.36+216/100%)
\* with a form feed before its ")".
WhiteSpaceSkippedWitness ==
    /\ Called
    /\ IsSpaced
    /\ \/ input = Bytes(<<"h", "s", "l", "(", "0", "+", "0", "%", "+", "0", "%", "/", "+", "0", "%", ")">>)
       \/ /\ tokens[1] = <<"r", "g", "b", "(">>
          /\ tokens[3] = <<"6", "e", "+", "0">>
          /\ tokens[12] = <<"FF">>
    /\ result.ret.ok

(***************************************************************************)
(* Hues of every sector with whole percentages (tests.rs, fn hsl, 392-430, *)
(* and readme_examples, 18-27).  A vector has the layout of a hue vector:  *)
(* <<function, degrees, no unit, " ", percentage, " ", percentage, alpha,  *)
(* ")">>.                                                                  *)
(***************************************************************************)
SectorHues == {0, 1, 30, 45, 60, 90, 120, 150, 180, 210, 240, 270, 300, 330, 359}
SectorPercents == {10 * k : k \in 0..10}
AlphaOne == <<" ", "/", " ", "1">>

SectorVectors ==
    {<<fn, SignedDec(h), Empty, Space, Pct(p), Space, Pct(q), a, Close>> :
        fn \in {Hsl, Hwb}, h \in SectorHues, p \in SectorPercents,
        q \in SectorPercents, a \in {Empty, AlphaOne}}

SectorInit ==
    /\ tokens \in SectorVectors
    /\ input = Bytes(Concat(tokens))
    /\ result = Pending

SectorSpec == SectorInit /\ [][Next]_vars

(***************************************************************************)
(* Properties of the conversions.                                          *)
(***************************************************************************)
IsSector == Len(tokens) = 9 /\ tokens \in SectorVectors

\* The hue of a sector vector in turns, times six.
SectorH6 ==
    F32Mul(F32Div(F32OfInt(CHOOSE h \in SectorHues : SignedDec(h) = tokens[2]),
                  F32OfInt(360)),
           F32Six)

\* The percentage at position i of a sector vector, as a fraction.
SectorPercent(i) ==
    F32Div(F32OfInt(CHOOSE p \in SectorPercents : Pct(p) = tokens[i]), F32OfInt(100))

\* h6 + 2 wrapped below 6, and h6 - 2 wrapped to non-negative.
WrapUp(h6) ==
    IF F32Lt(F32Add(h6, F32Two), F32Six) THEN F32Add(h6, F32Two)
    ELSE F32Sub(F32Add(h6, F32Two), F32Six)

WrapDown(h6) ==
    IF F32Le(F32Zero, F32Sub(h6, F32Two)) THEN F32Sub(h6, F32Two)
    ELSE F32Add(F32Sub(h6, F32Two), F32Six)

\* The hue-sector value: h6 < 1: h6; 1 <= h6 < 3: 1; 3 <= h6 < 4: 4 - h6;
\* else 0.
SectorBase(h6) ==
    IF F32Lt(h6, F32One) THEN h6
    ELSE IF F32Lt(h6, F32Three) THEN F32One
    ELSE IF F32Lt(h6, F32Four) THEN F32Sub(F32Four, h6)
    ELSE F32Zero

\* base * (1 - whiteness - blackness) + whiteness
HwbChannel(h6, w, bk) ==
    F32Add(F32Mul(SectorBase(h6), F32Sub(F32Sub(F32One, w), bk)), w)

\* The three channels of hwb for h6, whiteness w and blackness bk.
HwbToRgb(h6, w, bk, color) ==
    IF F32Le(F32One, F32Add(w, bk))
    THEN /\ F32Add(w, bk) # F32Zero
         /\ color.red = F32Div(w, F32Add(w, bk))
         /\ color.green = color.red
         /\ color.blue = color.red
    ELSE /\ color.red = HwbChannel(WrapUp(h6), w, bk)
         /\ color.green = HwbChannel(h6, w, bk)
         /\ color.blue = HwbChannel(WrapDown(h6), w, bk)

\* C23: when whiteness + blackness >= 1 the three channels of hwb are
\* whiteness / (whiteness + blackness) whatever the hue, and the divisor
\* is not zero; otherwise each channel is base * (1 - whiteness -
\* blackness) + whiteness, with the sector value base at hue * 6 for
\* green, hue * 6 + 2 wrapped below 6 for red and hue * 6 - 2 wrapped to
\* non-negative for blue.  hwb(120 0% 0% / 1) is (0, 1, 0, 1).
HwbConverted ==
    (Called /\ IsSector /\ tokens[1] = Hwb) =>
        /\ result.ret.ok
        /\ HwbToRgb(SectorH6, SectorPercent(5), SectorPercent(7), result.ret.color)
        /\ result.ret.color.alpha = F32One
        /\ (tokens[2] = SignedDec(120) /\ tokens[5] = Pct(0) /\ tokens[7] = Pct(0)) =>
               result.ret.color = Srgb(F32Zero, F32One, F32Zero, F32One)

\* hwb(120 0% 0% / 1) has been converted, and so has a gray, hwb(45 60% 50%).
HwbConvertedWitness ==
    /\ Called
    /\ IsSector
    /\ result.ret.ok
    /\ \/ /\ tokens = <<Hwb, SignedDec(120), Empty, Space, Pct(0), Space, Pct(0),
                        AlphaOne, Close>>
          /\ result.ret.color.green = F32One
       \/ /\ tokens = <<Hwb, SignedDec(45), Empty, Space, Pct(60), Space, Pct(50),
                        Empty, Close>>
          /\ result.ret.color.red = F32Div(F32OfInt(60), F32OfInt(110))

\* t2 = l * (s + 1) if l <= 0.5 else l + s - l * s
HslT2(s, l) ==
    IF F32Le(l, F32Half) THEN F32Mul(l, F32Add(s, F32One))
    ELSE F32Sub(F32Add(l, s), F32Mul(l, s))

\* t1 = 2 * l - t2
HslT1(l, t2) == F32Sub(F32Mul(F32Two, l), t2)

\* h6 < 1: (t2 - t1) * h6 + t1; 1 <= h6 < 3: t2;
\* 3 <= h6 < 4: (t2 - t1) * (4 - h6) + t1; else t1.
HslChannel(h6, t1, t2) ==
    IF F32Lt(h6, F32One) THEN F32Add(F32Mul(F32Sub(t2, t1), h6), t1)
    ELSE IF F32Lt(h6, F32Three) THEN t2
    ELSE IF F32Lt(h6, F32Four)
    THEN F32Add(F32Mul(F32Sub(t2, t1), F32Sub(F32Four, h6)), t1)
    ELSE t1

\* The three channels of hsl for h6, t1 and t2.
HslToRgb(h6, t1, t2, color) ==
    /\ color.red = HslChannel(WrapUp(h6), t1, t2)
    /\ color.green = HslChannel(h6, t1, t2)
    /\ color.blue = HslChannel(WrapDown(h6), t1, t2)

\* The colour of a name.
Named(w) == from_str(Bytes(w))

\* hsl(h 100% 50%) is the colour named w.
PureHue(h, w) ==
    (tokens[2] = SignedDec(h) /\ tokens[5] = Pct(100) /\ tokens[7] = Pct(50)) =>
        result.ret = Named(w)

\* C24: the channels of hsl are the piecewise function of t1 = 2 * l - t2
\* and t2 = l * (s + 1) if l <= 0.5 else l + s - l * s, at hue * 6 for
\* green, + 2 wrapped for red and - 2 wrapped for blue.  The hues 0, 120
\* and 240 at 100% and 50% are the colours named red, lime and blue, 60 is
\* yellow, and with saturation 0 the three channels are the lightness.
HslConverted ==
    (Called /\ IsSector /\ tokens[1] = Hsl) =>
        /\ result.ret.ok
        /\ HslToRgb(SectorH6,
                    HslT1(SectorPercent(7), HslT2(SectorPercent(5), SectorPercent(7))),
                    HslT2(SectorPercent(5), SectorPercent(7)),
                    result.ret.color)
        /\ result.ret.color.alpha = F32One
        /\ PureHue(0, <<"r", "e", "d">>)
        /\ PureHue(120, <<"l", "i", "m", "e">>)
        /\ PureHue(240, <<"b", "l", "u", "e">>)
        /\ PureHue(60, <<"y", "e", "l", "l", "o", "w">>)
        /\ tokens[5] = Pct(0) =>
               /\ result.ret.color.red = SectorPercent(7)
               /\ result.ret.color.green = SectorPercent(7)
               /\ result.ret.color.blue = SectorPercent(7)

\* hsl(240 100% 50%) has been converted to blue, and hsl(210 0% 30%) to a
\* gray.
HslConvertedWitness ==
    /\ Called
    /\ IsSector
    /\ result.ret.ok
    /\ \/ /\ tokens = <<Hsl, SignedDec(240), Empty, Space, Pct(100), Space, Pct(50),
                        Empty, Close>>
          /\ result.ret.color = Srgb(F32Zero, F32Zero, F32One, F32One)
       \/ /\ tokens = <<Hsl, SignedDec(210), Empty, Space, Pct(0), Space, Pct(30),
                        Empty, Close>>
          /\ result.ret.color.blue = F32Div(F32OfInt(30), F32OfInt(100))

(***************************************************************************)
(* The parse followed step by step through its first two scanners: after   *)
(* the function name, skip_ws (lib.rs 221-226, called at 245) and then     *)
(* consume_number (268-305), one loop iteration at a time; the rest of the *)
(* parse is one step.  A vector is <<function, white space, numeral,       *)
(* rest>>.  While the parse runs, result holds the position pc, the cursor *)
(* and, inside consume_digits, the position to return to.                  *)
(***************************************************************************)
ScanSpaces == {Empty, <<" ", "CR", "FF", " ">>, <<"NUL">>}
ScanRests ==
    {<<")">>, <<"%", " ", "0", "%", " ", "0", "%", ")">>, <<",", "0", ",", "0", ")">>}

ScanVectors ==
    {<<fn, s, n, r>> :
        fn \in {Rgb, Hsl}, s \in ScanSpaces,
        n \in PlainNumerals \cup MalformedNumerals, r \in ScanRests}

ScanInit ==
    /\ tokens \in ScanVectors
    /\ input = Bytes(Concat(tokens))
    /\ result = Pending

Running(pc) == ~result.called /\ result # Pending /\ result.pc = pc

At(pc, cursor) == [called |-> FALSE, pc |-> pc, cursor |-> cursor, after |-> "none"]

\* consume_digits has seen a digit: its loop, then on to the position after
InDigits(cursor, after) ==
    [called |-> FALSE, pc |-> "consume_digits", cursor |-> cursor, after |-> after]

\* input = &input[1..];
loop_idle(input_) == input_

loop_body(input_) == From(input_, 1)

\* consume_function: Ok(skip_ws(&input[n + 1..]))
Enter ==
    /\ result = Pending
    /\ result' = At("skip_ws", From(input, Len(tokens[1])))
    /\ UNCHANGED <<tokens, input>>

\* while input.len() > 0 && is_whitespace(input[0]) { input = &input[1..]; }
SkipWsStep ==
    /\ Running("skip_ws")
    /\ Len(result.cursor) > 0 /\ is_whitespace(result.cursor[1])
    /\ result' = At("skip_ws", loop_body(result.cursor))
    /\ UNCHANGED <<tokens, input>>

SkipWsReturn ==
    /\ Running("skip_ws")
    /\ ~(Len(result.cursor) > 0 /\ is_whitespace(result.cursor[1]))
    /\ result' = At("skip_sign", result.cursor)
    /\ UNCHANGED <<tokens, input>>

\* input = skip_sign(input);
SkipSign ==
    /\ Running("skip_sign")
    /\ result' = At("integer", skip_sign(result.cursor))
    /\ UNCHANGED <<tokens, input>>

\* match input.get(0) { Some(b'.') => {} _ => input = consume_digits(input)? }
Integer ==
    /\ Running("integer")
    /\ result' =
           IF FirstIs(result.cursor, 46) THEN At("fraction", result.cursor)
           ELSE IF Len(result.cursor) > 0 /\ digit(result.cursor[1]) >= 0
           THEN InDigits(result.cursor, "fraction")
           ELSE At("failed", result.cursor)
    /\ UNCHANGED <<tokens, input>>

\* while let Some(Ok(_)) = input.get(0).map(|c| digit(*c)) { input = &input[1..]; }
DigitsStep ==
    /\ Running("consume_digits")
    /\ Len(result.cursor) > 0 /\ digit(result.cursor[1]) >= 0
    /\ result' = InDigits(loop_body(result.cursor), result.after)
    /\ UNCHANGED <<tokens, input>>

DigitsReturn ==
    /\ Running("consume_digits")
    /\ ~(Len(result.cursor) > 0 /\ digit(result.cursor[1]) >= 0)
    /\ result' = At(result.after, result.cursor)
    /\ UNCHANGED <<tokens, input>>

\* if let Some(b'.') = input.get(0) { input = consume_digits(&input[1..])? }
Fraction ==
    /\ Running("fraction")
    /\ result' =
           IF ~FirstIs(result.cursor, 46) THEN At("exponent", result.cursor)
           ELSE IF Len(result.cursor) > 1 /\ digit(result.cursor[2]) >= 0
           THEN InDigits(From(result.cursor, 1), "exponent")
           ELSE At("failed", From(result.cursor, 1))
    /\ UNCHANGED <<tokens, input>>

\* Some(b'E') | Some(b'e') => { input = skip_sign(&input[1..]);
\*                              input = consume_digits(input)?; }
Exponent ==
    /\ Running("exponent")
    /\ result' =
           IF ~(FirstIs(result.cursor, 69) \/ FirstIs(result.cursor, 101))
           THEN At("scanned", result.cursor)
           ELSE IF consume_digits(skip_sign(From(result.cursor, 1))).ok
           THEN InDigits(skip_sign(From(result.cursor, 1)), "scanned")
           ELSE At("failed", skip_sign(From(result.cursor, 1)))
    /\ UNCHANGED <<tokens, input>>

\* consume_number has returned.
Scanned == Running("scanned") \/ Running("failed")

\* The rest of the parse: straight-line code over the same scanners.
Finish ==
    /\ Scanned
    /\ result' = [called |-> TRUE, ret |-> from_str(input)]
    /\ UNCHANGED <<tokens, input>>

ScanNext ==
    \/ Enter
    \/ SkipWsStep
    \/ SkipWsReturn
    \/ SkipSign
    \/ Integer
    \/ DigitsStep
    \/ DigitsReturn
    \/ Fraction
    \/ Exponent
    \/ Finish

\* A step of one of the two scanners.
Scan ==
    \/ Enter
    \/ SkipWsStep
    \/ SkipWsReturn
    \/ SkipSign
    \/ Integer
    \/ DigitsStep
    \/ DigitsReturn
    \/ Fraction
    \/ Exponent

\* The parse is one thread that runs to its end: no step waits.  The
\* second condition is WF_vars(Finish) with ENABLED <<Finish>>_vars
\* written as Scanned.
ScanSpec ==
    /\ ScanInit
    /\ [][ScanNext]_vars
    /\ WF_vars(Scan)
    /\ ([]<>~Scanned \/ []<><<Finish>>_vars)

(***************************************************************************)
(* Properties of the scanners.                                             *)
(***************************************************************************)
IsScan == Len(tokens) = 4 /\ tokens \in ScanVectors

Scanning == IsScan /\ ~result.called /\ result # Pending

\* s is c without some of its first bytes.
IsSuffix(s, c) ==
    Len(s) <= Len(c) /\ s = SubSeq(c, Len(c) - Len(s) + 1, Len(c))

\* The result r of a primitive called on c leaves a suffix of c.
LeavesSuffix(r, c) == r.ok => IsSuffix(r.rest, c)

\* The cursor the function name leaves.
ScanStart == From(input, Len(tokens[1]))

\* Whatever primitive is called on the cursor returns a suffix of it.
PrimitivesShorten(c) ==
    /\ IsSuffix(skip_ws(c), c)
    /\ IsSuffix(skip_sign(c), c)
    /\ LeavesSuffix(consume_byte(c, 44), c)
    /\ LeavesSuffix(consume_byte(c, 37), c)
    /\ LeavesSuffix(consume_none(c), c)
    /\ LeavesSuffix(consume_digits(c), c)
    /\ LeavesSuffix(consume_number(c), c)
    /\ LeavesSuffix(parse_number(c), c)
    /\ LeavesSuffix(parse_percentage(c), c)
    /\ LeavesSuffix(parse_number_percentage(c), c)
    /\ LeavesSuffix(parse_number_or_percentage(c), c)
    /\ LeavesSuffix(parse_alpha_value(c), c)
    /\ LeavesSuffix(parse_hue(c), c)

\* The cursor is a suffix of the input, and the loops return what skip_ws
\* and consume_number return.
ScanCursor ==
    Scanning =>
        /\ IsSuffix(result.cursor, input)
        /\ PrimitivesShorten(result.cursor)
        /\ result.pc = "skip_sign" => result.cursor = skip_ws(ScanStart)
        /\ result.pc = "scanned" =>
               consume_number(skip_ws(ScanStart)) = OkRest(result.cursor)
        /\ result.pc = "failed" => ~consume_number(skip_ws(ScanStart)).ok

\* A step leaves a suffix of the cursor; an iteration of a loop leaves a
\* shorter one.
ScanStep ==
    (Scanning /\ ~result'.called) =>
        /\ IsSuffix(result'.cursor, result.cursor)
        /\ result'.pc = result.pc => Len(result'.cursor) < Len(result.cursor)

\* C25: every parse terminates: each scanner returns a suffix of the
\* cursor it was given, every iteration of the loops of skip_ws and of the
\* digit scanner shortens the cursor, and the parse returns Ok or Err in
\* the end.
ScanTerminates ==
    /\ [](ScanCursor /\ ((Called /\ IsScan) => result.ret.ok \in BOOLEAN))
    /\ [][ScanStep]_vars
    /\ <>Called

\* The loop of consume_digits is past the exponent's sign of
\* "rgb( \r\x0C 6e+0.36+216/100%)"-like input: " CR FF " and "6e-0" scanned.
ScanTerminatesWitness ==
    /\ Scanning
    /\ tokens[2] = <<" ", "CR", "FF", " ">>
    /\ tokens[3] = <<"6", "e", "-", "0">>
    /\ result.pc = "consume_digits"
    /\ result.after = "scanned"
    /\ Len(result.cursor) = Len(tokens[4])

(***************************************************************************)
(* Inputs at the edges of what the code indexes, subtracts and multiplies: *)
(* hex strings of every length up to MaxHexLen with every digit and the    *)
(* neighbours of the digit ranges, pairs up to fF, words of 19 to 22 and   *)
(* of 41 bytes, and every numeral as the first component.                  *)
(***************************************************************************)
Goldenrod ==
    <<"l", "i", "g", "h", "t", "g", "o", "l", "d", "e", "n", "r", "o", "d", "y",
      "e", "l", "l", "o", "w">>

LongWords ==
    {SubSeq(Goldenrod, 1, 19), Goldenrod, Cased(Goldenrod, "upper"),
     Goldenrod \o <<"w">>, Goldenrod \o <<" ">>, Goldenrod \o <<"(", ")">>,
     Goldenrod \o Goldenrod \o <<"x">>, <<"#">> \o Goldenrod,
     <<"r", "g", "b", "(">> \o Goldenrod}

EdgeVectors ==
    HexRuns \cup HexLong \cup HexShort
    \cup {<<w>> : w \in LongWords}
    \cup {NumeralVector(f, 1, t, FALSE) : f \in NumeralForms, t \in Numerals}

EdgeInit ==
    /\ tokens \in EdgeVectors
    /\ input = Bytes(Concat(tokens))
    /\ result = Pending

EdgeSpec == EdgeInit /\ [][Next]_vars

(***************************************************************************)
(* Properties of the edges.                                                *)
(***************************************************************************)
\* The indices an arm of parse_hex reads, for an input of n bytes.
ArmIndices(n) ==
    IF n = 8 THEN 0..7
    ELSE IF n = 6 THEN 0..5
    ELSE IF n = 4 THEN 0..3
    ELSE IF n = 3 THEN 0..2
    ELSE {}

\* Every index of the arm is in s, the arm is taken for no other length,
\* and no product or sum of the arm exceeds a u8.
HexInBounds(s) ==
    /\ \A i \in ArmIndices(Len(s)) : i < Len(s)
    /\ ArmIndices(Len(s)) = {} => parse_hex(s) = Err
    /\ Len(s) \in {6, 8} =>
           \A k \in 0..((Len(s) \div 2) - 1) :
               /\ hex_digit(s[2 * k + 1]) >= 0 => hex_digit(s[2 * k + 1]) * 16 <= 255
               /\ (hex_digit(s[2 * k + 1]) >= 0 /\ hex_digit(s[2 * k + 2]) >= 0) =>
                      HexPair(s, 2 * k) \in 0..255
    /\ Len(s) \in {3, 4} =>
           \A i \in 0..(Len(s) - 1) :
               hex_digit(s[i + 1]) >= 0 => HexNibble(s, i) \in 0..255

\* consume_number called at offset k of the input: what it leaves is a
\* suffix, so that input.len() - remaining.len() is not negative, and the
\* bytes before it are ASCII and spell a <number>.
NumeralTaken(k, r) ==
    r.ok =>
        /\ Len(From(input, k)) - Len(r.rest) >= 0
        /\ IsSuffix(r.rest, From(input, k))
        /\ \A i \in (k + 1)..(Len(input) - Len(r.rest)) : input[i] < 128
        /\ IsNumber(SubSeq(Chars, k + 1, Len(input) - Len(r.rest)))

\* C26: the parse panics on no input: parse_hex indexes only below the
\* length it has matched, parse_named fills its buffer only from inputs of
\* at most NAMED_MAX_LEN bytes, what consume_number leaves is never longer
\* than what it was given, the bytes handed to the float conversion are an
\* ASCII numeral, and high * 16 + low and nibble * 17 fit a u8.
NeverPanics ==
    Called =>
        /\ result.ret.ok \in BOOLEAN
        /\ Hashed => HexInBounds(From(input, 1))
        /\ Len(input) > NAMED_MAX_LEN => ~parse_named(input).ok
        /\ (result.ret.ok /\ result.ret = parse_named(input)) => Len(input) <= NAMED_MAX_LEN
        /\ \A k \in 0..Len(input) : NumeralTaken(k, consume_number(From(input, k)))

\* #fFfF80 has been read as pairs up to 255, the 20 bytes of
\* LIGHTGOLDENRODYELLOW have filled the name buffer, and -.5e-3 has been
\* handed to the float conversion.
NeverPanicsWitness ==
    /\ Called
    /\ result.ret.ok
    /\ \/ /\ Hashed
          /\ Len(input) = 7
          /\ HexPair(From(input, 1), 0) = 255
       \/ Len(input) = NAMED_MAX_LEN /\ tokens = <<Cased(Goldenrod, "upper")>>
       \/ /\ Len(tokens) = 9
          /\ consume_number(From(input, Len(tokens[1]))).ok
          /\ Len(input) - Len(consume_number(From(input, Len(tokens[1]))).rest) > Len(tokens[1]) + 4

(***************************************************************************)
(* Components with and without white space between them (lib.rs 573-590):  *)
(* a number, a percentage or none, three times.  A vector is <<function,   *)
(* component, gap, component, gap, component, ")">>.                       *)
(***************************************************************************)
Num0 == <<"0">>
NoneWord == <<"n", "o", "n", "e">>
GluedComponents == {Num0, <<"0", "%">>, NoneWord}

GluedVectors ==
    {<<fn, c1, g1, c2, g2, c3, Close>> :
        fn \in {Rgb, Rgba, Hsl, Hsla, Hwb}, c1 \in GluedComponents,
        g1 \in {Space, Empty}, c2 \in GluedComponents, g2 \in {Space, Empty},
        c3 \in GluedComponents}

GluedInit ==
    /\ tokens \in GluedVectors
    /\ input = Bytes(Concat(tokens))
    /\ result = Pending

GluedSpec == GluedInit /\ [][Next]_vars

(***************************************************************************)
(* Properties of none after a number.                                      *)
(***************************************************************************)
IsGlued == Len(tokens) = 7 /\ tokens \in GluedVectors

\* The component at position i is a number with none right after it.
NumberThenNone(i) ==
    tokens[i] = Num0 /\ tokens[i + 1] = Empty /\ tokens[i + 2] = NoneWord

\* C27: no functional input with a number directly followed by none is
\* accepted, in rgb(), hsl() and hwb() alike.
NoneNeedsSpace ==
    (Called /\ IsGlued /\ (NumberThenNone(2) \/ NumberThenNone(4))) => ~result.ret.ok

\* What the code does: none right after the hue fails, none right after
\* any other number is read as the next component.
NoneAfterNumber ==
    (Called /\ IsGlued /\ (NumberThenNone(2) \/ NumberThenNone(4))) =>
        /\ (NumberThenNone(2) /\ tokens[1] \in {Hsl, Hsla, Hwb}) => ~result.ret.ok
        /\ (tokens[3] = Space /\ NumberThenNone(4)) =>
               result.ret = from_str(Bytes(Concat([tokens EXCEPT ![5] = Space])))
        /\ (tokens[1] \in {Rgb, Rgba} /\ NumberThenNone(2) /\ tokens[5] = Space) =>
               result.ret = from_str(Bytes(Concat([tokens EXCEPT ![3] = Space])))

(***************************************************************************)
(* Bare numbers and percentages in the comma-less syntax (lib.rs 442-454,  *)
(* 493-503, 567-590).  A vector is <<function, first component, " ",       *)
(* number, "%" or nothing, " ", number, "%" or nothing, ")">>.             *)
(***************************************************************************)
BareNumbers == {-10, 0, 1, 25, 50, 75, 100, 150}
Percent == <<"%">>

BareVectors ==
    {<<fn, SignedDec(120), Space, SignedDec(n), u, Space, SignedDec(k), w, Close>> :
        fn \in {Hsl, Hsla, Hwb, Rgb}, n \in BareNumbers, u \in {Empty, Percent},
        k \in BareNumbers, w \in {Empty, Percent}}

BareInit ==
    /\ tokens \in BareVectors
    /\ input = Bytes(Concat(tokens))
    /\ result = Pending

BareSpec == BareInit /\ [][Next]_vars

(***************************************************************************)
(* Properties of bare numbers.                                             *)
(***************************************************************************)
IsBare == Len(tokens) = 9 /\ tokens \in BareVectors

\* The number at position i of a bare vector.
BareNumber(i) == CHOOSE n \in BareNumbers : SignedDec(n) = tokens[i]

\* x brought into 0..1.
Clamped(x) == IF F32Lt(x, F32Zero) THEN F32Zero ELSE IF F32Lt(F32One, x) THEN F32One ELSE x

\* n / d, clamped.
Fraction01(n, d) == Clamped(F32Div(F32OfInt(n), F32OfInt(d)))

\* The input with "%" after both numbers.
WithPercents == Bytes(Concat([tokens EXCEPT ![5] = Percent, ![8] = Percent]))

\* The colour of hsl( or hwb( with the hue 120 and the fractions p and q.
BareColor(p, q) ==
    IF tokens[1] = Hwb THEN SrgbFromHwba(F32Div(F32OfInt(120), F32OfInt(360)), p, q, F32One)
    ELSE SrgbFromHsla(F32Div(F32OfInt(120), F32OfInt(360)), p, q, F32One)

TokenRests ==
    {Empty, <<".", "3", "6", "+", "2", "1", "6">>, <<"%">>, <<"e">>, <<"E", "-">>,
     <<".">>, <<"+", "1">>, <<" ", "1">>, <<"d", "e", "g">>, <<"x80">>}

TokenVectors ==
    {<<n, r>> : n \in PlainNumerals \cup MalformedNumerals, r \in TokenRests}

TokenInit ==
    /\ tokens \in TokenVectors
    /\ input = Bytes(Concat(tokens))
    /\ result = Pending

\* consume_number(input)
ConsumeNumber ==
    /\ ~result.called
    /\ result' = [called |-> TRUE, ret |-> consume_number(input)]
    /\ UNCHANGED <<tokens, input>>

TokenNext == ConsumeNumber

TokenSpec == TokenInit /\ [][TokenNext]_vars

(***************************************************************************)
(* Properties of the tokenizer.                                            *)
(***************************************************************************)
IsToken == Len(tokens) = 2

\* The first k characters of the input are a <number>.
NumberPrefix(k) == IsNumber(SubSeq(Chars, 1, k))

HasNumberPrefix == \E k \in 1..Len(Chars) : NumberPrefix(k)

\* The length of the longest prefix that is a <number>.
LongestNumber ==
    CHOOSE k \in 0..Len(Chars) :
        /\ k > 0 => NumberPrefix(k)
        /\ \A j \in (k + 1)..Len(Chars) : ~NumberPrefix(j)

\* How many bytes consume_number has taken.
Consumed == Len(input) - Len(result.ret.rest)

\* The character after the longest <number>, if any.
AfterNumber(c) == Len(Chars) > LongestNumber /\ Chars[LongestNumber + 1] \in c

InLongest(c) == \E i \in 1..LongestNumber : Chars[i] \in c

\* The longest <number> is followed by a "." or an e that can not belong
\* to it: the digits it needs are missing.
Dangling ==
    \/ ~InLongest({".", "e", "E"}) /\ AfterNumber({"."})
    \/ ~InLongest({"e", "E"}) /\ AfterNumber({"e", "E"})

\* C29 as stated: whenever some prefix of the input is a <number>,
\* consume_number succeeds and leaves the cursor right after the longest
\* such prefix.
TokenizerLongest ==
    (Called /\ IsToken /\ HasNumberPrefix) =>
        result.ret.ok /\ Consumed = LongestNumber

\* C29: consume_number scans from the left and never steps back: it fails
\* when no prefix of the input is a <number>, and when the longest such
\* prefix is followed by a "." or an e or E that it could have taken had
\* digits followed; otherwise it succeeds and leaves the cursor right
\* after the longest prefix that is a <number>.
TokenizerGreedy ==
    (Called /\ IsToken) =>
        IF ~HasNumberPrefix \/ Dangling THEN ~result.ret.ok
        ELSE /\ result.ret.ok
             /\ Consumed = LongestNumber
             /\ result.ret.rest = From(input, LongestNumber)

\* 6e+0.36+216 has been scanned up to ".36+216", and 6e has failed.
TokenizerGreedyWitness ==
    /\ Called
    /\ IsToken
    /\ \/ /\ tokens = <<<<"6", "e", "+", "0">>, <<".", "3", "6", "+", "2", "1", "6">>>>
          /\ result.ret = OkRest(Bytes(tokens[2]))
       \/ /\ tokens = <<<<"6", "e">>, Empty>>
          /\ HasNumberPrefix
          /\ ~result.ret.ok

=============================================================================
